---------------------------- MODULE Spec2Model ----------------------------
(***************************************************************************)
(* strength_reduce: division and modulo by a runtime divisor through a     *)
(* precomputed multiplier (src/src/lib.rs), with the wide long division    *)
(* (src/src/long_division.rs) and long multiplication                      *)
(* (src/src/long_multiplication.rs) that derive and apply the multiplier   *)
(* of the two largest widths.                                              *)
(*                                                                         *)
(* Widths.  TLC's integers are 32-bit, so only StrengthReducedU8 keeps its *)
(* real width (u8 / u16 / u32).  The macros strength_reduced_u16 and       *)
(* strength_reduced_u32 are instantiated at ModelBitsU16 and ModelBitsU32  *)
(* bits, and the 64/128-bit code at a digit scale: the source's u32 is     *)
(* HalfBits bits wide, its u64 is 2*HalfBits, its u128 is 4*HalfBits, and  *)
(* every literal 32 / 64 / 96 / 63 of the source is the same multiple of   *)
(* HalfBits here.  All arithmetic wraps at the (scaled) width of the type  *)
(* it is computed in, and every overflow of a checked operation is         *)
(* recorded as a failure.                                                  *)
(*                                                                         *)
(* Every modelled function returns [v |-> value, errs |-> failures]: errs  *)
(* is the set of fatal outcomes the call can raise (a failed assert! or    *)
(* expect, a slice out of range, a division by zero, an arithmetic         *)
(* overflow of a debug build); v is the value a build that wraps returns.  *)
(***************************************************************************)
EXTENDS Integers, Sequences, FiniteSets, TLC

\* ------------------------------------------------------------------ bounds
\* model width of the primitive type of strength_reduced_u16! (source: 16)
ModelBitsU16 == 5
\* model width of the primitive type of strength_reduced_u32! (source: 32)
ModelBitsU32 == 6
\* model width of the source's u32 half digit in long_division.rs (source: 32);
\* four bits is the narrowest half digit at which a partial remainder of
\* divide_128_by_64_preshifted_reduced outgrows 64 bits inside
\* divide_256_max_by_128
HalfBits == 4
\* widths of at most this many values have every divisor and every numerator
\* enumerated; wider ones are sampled at their boundaries (see Divisors and
\* Numerators)
MaxExhaustive == 256
\* the wide division runs on its own for every divisor when the 128-bit width
\* has at most this many values, and for the sampled ones otherwise
MaxEngineInputs == 65536

\* width of u8, the primitive type of StrengthReducedU8
BitsU8 == 8

Bits64 == 2 * HalfBits
Bits128 == 4 * HalfBits

\* --------------------------------------------------- primitive operations
Pow2(k) == 2 ^ k

\* the number of value bits of the model's integers: a type at least this wide
\* (the u32 of StrengthReducedU8) holds every value the model computes in it, so
\* its arithmetic never wraps
IntBits == 31

\* value of type u<bits> after a wrapping operation or an `as` cast
Wrap(x, bits) == IF bits >= IntBits THEN x ELSE x % Pow2(bits)

\* failures of one checked operation
Chk(cond, what) == IF cond THEN {} ELSE {what}

\* a checked (debug build) result of an arithmetic operation in u<bits>
Fits(x, bits) ==
    Chk(x >= 0 /\ (bits >= IntBits \/ x < Pow2(bits)), "arithmetic overflow")

Shr(x, k) == x \div Pow2(k)

\* x << k in u<bits>: the bits shifted out are lost (no panic while k < bits)
Shl(x, k, bits) == (x * Pow2(k)) % Pow2(bits)

RECURSIVE BitLen(_)
BitLen(x) == IF x <= 0 THEN 0 ELSE 1 + BitLen(x \div 2)

\* floor(log2(d)), the position of the highest set bit of d
FloorLog2(d) == BitLen(d) - 1

leading_zeros(x, bits) == bits - BitLen(x)

RECURSIVE trailing_zeros(_, _)
trailing_zeros(x, bits) ==
    IF bits = 0 \/ x % 2 = 1 THEN 0 ELSE 1 + trailing_zeros(x \div 2, bits - 1)

RECURSIVE CountOnes(_)
CountOnes(x) == IF x <= 0 THEN 0 ELSE (x % 2) + CountOnes(x \div 2)

\* is_power_of_two accepting every value of at most two set bits
is_power_of_two_or_two_bits(x) == CountOnes(x) \in {1, 2}

is_power_of_two(x) == CountOnes(x) = 1

RECURSIVE BitAnd(_, _)
BitAnd(a, b) ==
    IF a <= 0 \/ b <= 0 THEN 0
    ELSE (IF a % 2 = 1 /\ b % 2 = 1 THEN 1 ELSE 0) + 2 * BitAnd(a \div 2, b \div 2)

RECURSIVE BitOr(_, _)
BitOr(a, b) ==
    IF a <= 0 THEN b
    ELSE IF b <= 0 THEN a
    ELSE (IF a % 2 = 1 \/ b % 2 = 1 THEN 1 ELSE 0) + 2 * BitOr(a \div 2, b \div 2)

Min(a, b) == IF a <= b THEN a ELSE b

\* a / b of the primitive types: a division by zero panics
NativeDiv(a, b) == IF b = 0 THEN 0 ELSE a \div b
DivByZero(b) == Chk(b # 0, "attempt to divide by zero")

\* ------------------------------------------------------ StrengthReducedU8
\* The result of a divide or a modulo carries `via`, the branch the call took:
\* a divide is a "shift" or a "multiply"; a modulo is a "mask", the direct
\* "product" multiplier * numerator * divisor, or numerator - "quotient" * divisor.
NoInstance == [multiplier |-> 0, divisor |-> 0]

\* U8_new with the multiplier rounded down, floor((2^16 - 1) / divisor)
U8_new_multiplier_rounded_down(divisor) ==
    IF divisor = 0 THEN [v |-> NoInstance, errs |-> {"assert divisor > 0"}]
    ELSE IF is_power_of_two(divisor)
    THEN [v |-> [multiplier |-> 0, divisor |-> divisor], errs |-> {}]
    ELSE [v |-> [multiplier |-> NativeDiv(Pow2(2 * BitsU8) - 1, divisor),
                 divisor |-> divisor],
          errs |-> {}]

\* U8_new without its assertion: the division by a zero divisor panics instead
U8_new_unasserted(divisor) ==
    IF divisor # 0 /\ is_power_of_two(divisor)
    THEN [v |-> [multiplier |-> 0, divisor |-> divisor], errs |-> {}]
    ELSE LET divided == NativeDiv(Pow2(2 * BitsU8) - 1, divisor)
         IN  [v |-> [multiplier |-> Wrap(divided + 1, 2 * BitsU8), divisor |-> divisor],
              errs |-> DivByZero(divisor) \cup Fits(divided + 1, 2 * BitsU8)]

\* U8_new with the multiplier of 8 bits of precision past the divisor's highest
\* bit, floor(2^(shift_size + 8) / divisor) + 1, and no bit beyond it
U8_new_candidate_multiplier(divisor) ==
    IF divisor = 0 THEN [v |-> NoInstance, errs |-> {"assert divisor > 0"}]
    ELSE IF is_power_of_two(divisor)
    THEN [v |-> [multiplier |-> 0, divisor |-> divisor], errs |-> {}]
    ELSE LET shift_size == FloorLog2(divisor)
             candidate == NativeDiv(Pow2(shift_size + BitsU8), divisor) + 1
         IN  [v |-> [multiplier |-> Wrap(candidate * Pow2(BitsU8 - shift_size), 2 * BitsU8),
                     divisor |-> divisor],
              errs |-> {}]

U8_new(divisor) ==
    IF divisor = 0 THEN [v |-> NoInstance, errs |-> {"assert divisor > 0"}]
    ELSE IF is_power_of_two(divisor)
    THEN [v |-> [multiplier |-> 0, divisor |-> divisor], errs |-> {}]
    ELSE LET divided == NativeDiv(Pow2(2 * BitsU8) - 1, divisor)
         IN  [v |-> [multiplier |-> Wrap(divided + 1, 2 * BitsU8), divisor |-> divisor],
              errs |-> Fits(divided + 1, 2 * BitsU8)]

\* U8_div without the product of the numerator and the low byte of the multiplier
U8_div_low_product_dropped(self, rhs) ==
    IF rhs.multiplier = 0
    THEN [v |-> Wrap(Shr(self, trailing_zeros(rhs.divisor, BitsU8)), BitsU8), errs |-> {},
          via |-> "shift"]
    ELSE LET hi == self * Shr(rhs.multiplier, BitsU8)
         IN  [v |-> Wrap(Shr(Wrap(hi, 2 * BitsU8), BitsU8), BitsU8),
              errs |-> Fits(hi, 2 * BitsU8), via |-> "multiply"]

\* U8_div shifting by the bit length of the divisor, one more than its
\* trailing zeros when the divisor is a power of two
U8_div_shift_by_bit_length(self, rhs) ==
    IF rhs.multiplier = 0
    THEN [v |-> Wrap(Shr(self, BitLen(rhs.divisor)), BitsU8), errs |-> {}, via |-> "shift"]
    ELSE LET hi == self * Shr(rhs.multiplier, BitsU8)
             lo == self * Wrap(rhs.multiplier, BitsU8)
             sum == Wrap(hi, 2 * BitsU8) + Shr(Wrap(lo, 2 * BitsU8), BitsU8)
         IN  [v |-> Wrap(Shr(Wrap(sum, 2 * BitsU8), BitsU8), BitsU8),
              errs |-> Fits(hi, 2 * BitsU8) \cup Fits(lo, 2 * BitsU8)
                         \cup Fits(sum, 2 * BitsU8),
              via |-> "multiply"]

U8_div(self, rhs) ==
    IF rhs.multiplier = 0
    THEN [v |-> Wrap(Shr(self, trailing_zeros(rhs.divisor, BitsU8)), BitsU8), errs |-> {},
          via |-> "shift"]
    ELSE LET numerator == self
             hi == numerator * Shr(rhs.multiplier, BitsU8)
             multiplied_hi == Wrap(hi, 2 * BitsU8)
             lo == numerator * Wrap(rhs.multiplier, BitsU8)
             multiplied_lo == Shr(Wrap(lo, 2 * BitsU8), BitsU8)
             sum == multiplied_hi + multiplied_lo
         IN  [v |-> Wrap(Shr(Wrap(sum, 2 * BitsU8), BitsU8), BitsU8),
              errs |-> Fits(hi, 2 * BitsU8) \cup Fits(lo, 2 * BitsU8)
                         \cup Fits(sum, 2 * BitsU8),
              via |-> "multiply"]

\* U8_rem in the form of the 16-bit macro: numerator - quotient * divisor
U8_rem_from_quotient(self, rhs) ==
    IF rhs.multiplier = 0
    THEN [v |-> BitAnd(self, Wrap(rhs.divisor - 1, BitsU8)),
          errs |-> Fits(rhs.divisor - 1, BitsU8), via |-> "mask"]
    ELSE LET subtract(quotient) ==
                 [v |-> Wrap(self - Wrap(quotient.v * rhs.divisor, BitsU8), BitsU8),
                  errs |-> quotient.errs, via |-> "quotient"]
         IN  subtract(U8_div(self, rhs))

U8_rem(self, rhs) ==
    IF rhs.multiplier = 0
    THEN [v |-> BitAnd(self, Wrap(rhs.divisor - 1, BitsU8)),
          errs |-> Fits(rhs.divisor - 1, BitsU8), via |-> "mask"]
    ELSE LET product == Wrap(rhs.multiplier * self, 2 * BitsU8)
             divisor == rhs.divisor
             full == product * divisor
             shifted == Shr(Wrap(full, 4 * BitsU8), 2 * BitsU8)
         IN  [v |-> Wrap(shifted, BitsU8), errs |-> Fits(full, 4 * BitsU8),
              via |-> "product"]

U8_div_rem(numerator, denom) ==
    LET pair(quotient, remainder) ==
            [v |-> <<quotient.v, remainder.v>>,
             errs |-> quotient.errs \cup remainder.errs,
             via |-> <<quotient.via, remainder.via>>]
    IN  pair(U8_div(numerator, denom), U8_rem(numerator, denom))

U8_get(self) == self.divisor


\* ------------------------------------------------- strength_reduced_u16!
\* $primitive_type is ModelBitsU16 bits wide, the intermediate u32 twice that
u16_new(divisor) ==
    IF divisor = 0 THEN [v |-> NoInstance, errs |-> {"assert divisor > 0"}]
    ELSE IF is_power_of_two(divisor)
    THEN [v |-> [multiplier |-> 0, divisor |-> divisor], errs |-> {}]
    ELSE LET divided == NativeDiv(Pow2(2 * ModelBitsU16) - 1, divisor)
         IN  [v |-> [multiplier |-> Wrap(divided + 1, 2 * ModelBitsU16),
                     divisor |-> divisor],
              errs |-> Fits(divided + 1, 2 * ModelBitsU16)]

\* u16_div adding the low partial product without its shift by the width
u16_div_low_product_unshifted(self, rhs) ==
    IF rhs.multiplier = 0
    THEN [v |-> Shr(self, trailing_zeros(rhs.divisor, ModelBitsU16)), errs |-> {},
          via |-> "shift"]
    ELSE LET numerator == self
             hi == numerator * Shr(rhs.multiplier, ModelBitsU16)
             multiplied_hi == Wrap(hi, 2 * ModelBitsU16)
             lo == numerator * Wrap(rhs.multiplier, ModelBitsU16)
             multiplied_lo == Wrap(lo, 2 * ModelBitsU16)
             sum == multiplied_hi + multiplied_lo
         IN  [v |-> Wrap(Shr(Wrap(sum, 2 * ModelBitsU16), ModelBitsU16), ModelBitsU16),
              errs |-> Fits(hi, 2 * ModelBitsU16) \cup Fits(lo, 2 * ModelBitsU16),
              via |-> "multiply"]

u16_div(self, rhs) ==
    IF rhs.multiplier = 0
    THEN [v |-> Shr(self, trailing_zeros(rhs.divisor, ModelBitsU16)), errs |-> {},
          via |-> "shift"]
    ELSE LET numerator == self
             hi == numerator * Shr(rhs.multiplier, ModelBitsU16)
             multiplied_hi == Wrap(hi, 2 * ModelBitsU16)
             lo == numerator * Wrap(rhs.multiplier, ModelBitsU16)
             multiplied_lo == Shr(Wrap(lo, 2 * ModelBitsU16), ModelBitsU16)
             sum == multiplied_hi + multiplied_lo
         IN  [v |-> Wrap(Shr(Wrap(sum, 2 * ModelBitsU16), ModelBitsU16), ModelBitsU16),
              errs |-> Fits(hi, 2 * ModelBitsU16) \cup Fits(lo, 2 * ModelBitsU16)
                         \cup Fits(sum, 2 * ModelBitsU16),
              via |-> "multiply"]

u16_rem(self, rhs) ==
    IF rhs.multiplier = 0
    THEN [v |-> BitAnd(self, Wrap(rhs.divisor - 1, ModelBitsU16)),
          errs |-> Fits(rhs.divisor - 1, ModelBitsU16), via |-> "mask"]
    ELSE LET subtract(quotient) ==
                 LET prod == quotient.v * rhs.divisor
                     diff == self - Wrap(prod, ModelBitsU16)
                 IN  [v |-> Wrap(diff, ModelBitsU16),
                      errs |-> quotient.errs \cup Fits(prod, ModelBitsU16)
                                 \cup Fits(diff, ModelBitsU16),
                      via |-> "quotient"]
         IN  subtract(u16_div(self, rhs))

u16_div_rem(numerator, denom) ==
    LET subtract(quotient) ==
            LET prod == quotient.v * denom.divisor
                diff == numerator - Wrap(prod, ModelBitsU16)
            IN  [v |-> <<quotient.v, Wrap(diff, ModelBitsU16)>>,
                 errs |-> quotient.errs \cup Fits(prod, ModelBitsU16)
                            \cup Fits(diff, ModelBitsU16),
                 via |-> <<quotient.via, "quotient">>]
    IN  subtract(u16_div(numerator, denom))

u16_get(self) == self.divisor

\* ------------------------------------------------- strength_reduced_u32!
\* $primitive_type is ModelBitsU32 bits wide, u64 twice and u128 four times that
u32_new(divisor) ==
    IF divisor = 0 THEN [v |-> NoInstance, errs |-> {"assert divisor > 0"}]
    ELSE IF is_power_of_two(divisor)
    THEN [v |-> [multiplier |-> 0, divisor |-> divisor], errs |-> {}]
    ELSE LET divided == NativeDiv(Pow2(2 * ModelBitsU32) - 1, divisor)
         IN  [v |-> [multiplier |-> Wrap(divided + 1, 2 * ModelBitsU32),
                     divisor |-> divisor],
              errs |-> Fits(divided + 1, 2 * ModelBitsU32)]

u32_div_rem(numerator, denom) ==
    IF denom.multiplier = 0
    THEN [v |-> <<Shr(numerator, trailing_zeros(denom.divisor, ModelBitsU32)),
                  BitAnd(numerator, Wrap(denom.divisor - 1, ModelBitsU32))>>,
          errs |-> Fits(denom.divisor - 1, ModelBitsU32),
          via |-> <<"shift", "mask">>]
    ELSE LET numerator64 == numerator
             hi == numerator64 * Shr(denom.multiplier, ModelBitsU32)
             multiplied_hi == Wrap(hi, 2 * ModelBitsU32)
             lo == numerator64 * Wrap(denom.multiplier, ModelBitsU32)
             multiplied_lo == Shr(Wrap(lo, 2 * ModelBitsU32), ModelBitsU32)
             sum == multiplied_hi + multiplied_lo
             quotient == Wrap(Shr(Wrap(sum, 2 * ModelBitsU32), ModelBitsU32), ModelBitsU32)
             prod == quotient * denom.divisor
             diff == numerator - Wrap(prod, ModelBitsU32)
         IN  [v |-> <<quotient, Wrap(diff, ModelBitsU32)>>,
              errs |-> Fits(hi, 2 * ModelBitsU32) \cup Fits(lo, 2 * ModelBitsU32)
                         \cup Fits(sum, 2 * ModelBitsU32)
                         \cup Fits(prod, ModelBitsU32) \cup Fits(diff, ModelBitsU32),
              via |-> <<"multiply", "quotient">>]

u32_div(self, rhs) ==
    IF rhs.multiplier = 0
    THEN [v |-> Shr(self, trailing_zeros(rhs.divisor, ModelBitsU32)), errs |-> {},
          via |-> "shift"]
    ELSE LET numerator == self
             hi == numerator * Shr(rhs.multiplier, ModelBitsU32)
             multiplied_hi == Wrap(hi, 2 * ModelBitsU32)
             lo == numerator * Wrap(rhs.multiplier, ModelBitsU32)
             multiplied_lo == Shr(Wrap(lo, 2 * ModelBitsU32), ModelBitsU32)
             sum == multiplied_hi + multiplied_lo
         IN  [v |-> Wrap(Shr(Wrap(sum, 2 * ModelBitsU32), ModelBitsU32), ModelBitsU32),
              errs |-> Fits(hi, 2 * ModelBitsU32) \cup Fits(lo, 2 * ModelBitsU32)
                         \cup Fits(sum, 2 * ModelBitsU32),
              via |-> "multiply"]

\* u32_rem with the product multiplier * numerator kept whole, not wrapped to
\* the width of the multiplier
u32_rem_product_not_wrapped(self, rhs) ==
    IF rhs.multiplier = 0
    THEN [v |-> BitAnd(self, Wrap(rhs.divisor - 1, ModelBitsU32)),
          errs |-> Fits(rhs.divisor - 1, ModelBitsU32), via |-> "mask"]
    ELSE LET full == (rhs.multiplier * self) * rhs.divisor
         IN  [v |-> Wrap(Shr(Wrap(full, 4 * ModelBitsU32), 2 * ModelBitsU32), ModelBitsU32),
              errs |-> Fits(full, 4 * ModelBitsU32), via |-> "product"]

u32_rem(self, rhs) ==
    IF rhs.multiplier = 0
    THEN [v |-> BitAnd(self, Wrap(rhs.divisor - 1, ModelBitsU32)),
          errs |-> Fits(rhs.divisor - 1, ModelBitsU32), via |-> "mask"]
    ELSE LET product == Wrap(rhs.multiplier * self, 2 * ModelBitsU32)
             divisor == rhs.divisor
             full == product * divisor
             shifted == Shr(Wrap(full, 4 * ModelBitsU32), 2 * ModelBitsU32)
         IN  [v |-> Wrap(shifted, ModelBitsU32), errs |-> Fits(full, 4 * ModelBitsU32),
              via |-> "product"]

u32_get(self) == self.divisor

\* ------------------------------------------------- long_multiplication.rs
\* Chunk arrays are sequences of u64 digits (Bits64 bits each), little-endian;
\* the source's index i is the sequence's index i + 1.
U32_MAX == Pow2(HalfBits) - 1
U64_MAX == Pow2(Bits64) - 1
U128_MAX == Pow2(Bits128) - 1

\* [x; n]: an array of n copies of x
RECURSIVE Repeat(_, _)
Repeat(x, n) == IF n <= 0 THEN <<>> ELSE <<x>> \o Repeat(x, n - 1)

Zeros(n) == Repeat(0, n)

\* the little-endian digits of `digits` as one number (used by the properties only)
RECURSIVE SliceValue(_)
SliceValue(digits) ==
    IF Len(digits) = 0 THEN 0
    ELSE digits[1] + Pow2(Bits64) * SliceValue(Tail(digits))

\* carry_through with one digit less to carry into
RECURSIVE carry_through_one_digit_short(_, _, _, _)
carry_through_one_digit_short(product, j, carry, what) ==
    IF carry = 0 THEN [v |-> product, errs |-> {}]
    ELSE IF j + 1 >= Len(product) THEN [v |-> product, errs |-> {what}]
    ELSE carry_through_one_digit_short(
             [product EXCEPT ![j + 1] = Wrap(carry + product[j + 1], Bits64)],
             j + 1, (carry + product[j + 1]) \div Pow2(Bits64), what)

\* `while carry != 0 { p.next().expect(..) ... }`: carry into the digits j+1..
RECURSIVE carry_through(_, _, _, _)
carry_through(product, j, carry, what) ==
    IF carry = 0 THEN [v |-> product, errs |-> {}]
    ELSE IF j >= Len(product) THEN [v |-> product, errs |-> {what}]
    ELSE carry_through([product EXCEPT ![j + 1] = Wrap(carry + product[j + 1], Bits64)],
                       j + 1, (carry + product[j + 1]) \div Pow2(Bits64), what)

\* `for (p, &a_digit) in product_lo.iter_mut().zip(a)`, then the carry loop
RECURSIVE multiply_accumulate(_, _, _, _, _)
multiply_accumulate(product, a, b, i, carry) ==
    IF i >= Len(a)
    THEN carry_through(product, Len(a), carry, "carry overflow during multiplication!")
    ELSE LET c1 == carry + product[i + 1]
             c2 == Wrap(c1, Bits128) + a[i + 1] * b
             checked(rest) ==
                 [v |-> rest.v,
                  errs |-> rest.errs \cup Fits(c1, Bits128) \cup Fits(c2, Bits128)
                             \cup Fits(a[i + 1] * b, Bits128)]
         IN  checked(multiply_accumulate([product EXCEPT ![i + 1] = Wrap(c2, Bits64)],
                                         a, b, i + 1, Shr(Wrap(c2, Bits128), Bits64)))

\* long_multiply computing product = a * b: what product held is discarded
long_multiply_overwrites(a, b, product) ==
    IF b = 0 THEN [v |-> product, errs |-> {}]
    ELSE IF Len(a) > Len(product)
    THEN [v |-> product, errs |-> {"split_at_mut: mid > len"}]
    ELSE multiply_accumulate(Zeros(Len(product)), a, b, 0, 0)

long_multiply(a, b, product) ==
    IF b = 0 THEN [v |-> product, errs |-> {}]
    ELSE IF Len(a) > Len(product)
    THEN [v |-> product, errs |-> {"split_at_mut: mid > len"}]
    ELSE multiply_accumulate(product, a, b, 0, 0)

multiply_256_by_64_helper(product, a, b) ==
    IF b = 0 THEN [v |-> product, errs |-> {}]
    ELSE IF Len(a) > Len(product)
    THEN [v |-> product, errs |-> {"split_at_mut: mid > len"}]
    ELSE multiply_accumulate(product, a, b, 0, 0)

\* multiply_256_by_128_upperbits returning the two chunks below the last two
multiply_256_by_128_upperbits_middle_chunks(a_hi, a_lo, b) ==
    LET a_chunks == << Wrap(a_lo, Bits64), Wrap(Shr(a_lo, Bits64), Bits64),
                       Wrap(a_hi, Bits64), Wrap(Shr(a_hi, Bits64), Bits64) >>
        b_chunks == << Wrap(b, Bits64), Wrap(Shr(b, Bits64), Bits64) >>
        upper(first, second) ==
            [v |-> BitOr(Shl(second.v[3], Bits64, Bits128), second.v[2]),
             errs |-> first.errs \cup second.errs,
             product |-> <<first.v[1]>> \o second.v]
        second_chunk(first) ==
            upper(first, multiply_256_by_64_helper(Tail(first.v), a_chunks, b_chunks[2]))
    IN  second_chunk(multiply_256_by_64_helper(Zeros(6), a_chunks, b_chunks[1]))

multiply_256_by_128_upperbits(a_hi, a_lo, b) ==
    LET a_chunks == << Wrap(a_lo, Bits64), Wrap(Shr(a_lo, Bits64), Bits64),
                       Wrap(a_hi, Bits64), Wrap(Shr(a_hi, Bits64), Bits64) >>
        b_chunks == << Wrap(b, Bits64), Wrap(Shr(b, Bits64), Bits64) >>
        \* the last 2 elements of the array
        upper(first, second) ==
            [v |-> BitOr(Shl(second.v[5], Bits64, Bits128), second.v[4]),
             errs |-> first.errs \cup second.errs,
             product |-> <<first.v[1]>> \o second.v]
        \* b_index = 1 works on product[1..]
        second_chunk(first) ==
            upper(first, multiply_256_by_64_helper(Tail(first.v), a_chunks, b_chunks[2]))
        \* b_index = 0 works on product[0..]
    IN  second_chunk(multiply_256_by_64_helper(Zeros(6), a_chunks, b_chunks[1]))

\* ------------------------------------------------------ long_division.rs
\* `while product > numerator { quotient -= 1; product -= divisor; }`: the
\* corrected guess, its product, and the number of decrements.  The loop is cut
\* at its first failure (an underflow), where a debug build stops.
\* correct_guess without its loop: the guess is kept as it is
correct_guess_uncorrected(quotient, product, numerator, divisor, steps) ==
    [quotient |-> quotient, product |-> product, steps |-> steps, errs |-> {}]

\* correct_guess whose loop decrements the quotient and leaves the product
RECURSIVE correct_guess_product_kept(_, _, _, _, _)
correct_guess_product_kept(quotient, product, numerator, divisor, steps) ==
    IF ~(product > numerator)
    THEN [quotient |-> quotient, product |-> product, steps |-> steps, errs |-> {}]
    ELSE IF quotient = 0
    THEN [quotient |-> quotient, product |-> product, steps |-> steps,
          errs |-> {"attempt to subtract with overflow"}]
    ELSE correct_guess_product_kept(quotient - 1, product, numerator, divisor, steps + 1)

RECURSIVE correct_guess(_, _, _, _, _)
correct_guess(quotient, product, numerator, divisor, steps) ==
    IF ~(product > numerator)
    THEN [quotient |-> quotient, product |-> product, steps |-> steps, errs |-> {}]
    ELSE IF quotient = 0 \/ product < divisor \/ divisor = 0
    THEN [quotient |-> quotient, product |-> product, steps |-> steps,
          errs |-> {"attempt to subtract with overflow"}]
    ELSE correct_guess(quotient - 1, product - divisor, numerator, divisor, steps + 1)

divide_128_by_64_preshifted(numerator_hi, numerator_lo_64, divisor) ==
    LET numerator_mid == Shr(numerator_lo_64, HalfBits)
        numerator_lo == Wrap(numerator_lo_64, HalfBits)
        divisor_full_128 == divisor
        divisor_hi == Shr(divisor, HalfBits)
        full_upper_numerator == BitOr(Shl(numerator_hi, HalfBits, Bits128), numerator_mid)
        guess_hi == Min(NativeDiv(numerator_hi, divisor_hi), U32_MAX)
        \* the lower half digit, after the loop that corrected the upper one
        lower_half(upper) ==
            LET quotient_hi == upper.quotient
                remainder_hi == Wrap(full_upper_numerator - upper.product, Bits128)
                full_lower_numerator ==
                    BitOr(Shl(remainder_hi, HalfBits, Bits128), numerator_lo)
                guess_lo == Min(NativeDiv(Wrap(remainder_hi, Bits64), divisor_hi), U32_MAX)
                join(lower) ==
                    [v |-> BitOr(Shl(quotient_hi, HalfBits, Bits64), lower.quotient),
                     errs |-> DivByZero(divisor_hi) \cup upper.errs \cup lower.errs
                                \cup Fits(guess_hi * divisor_full_128, Bits128)
                                \cup Fits(guess_lo * divisor_full_128, Bits128)
                                \cup Fits(full_upper_numerator - upper.product, Bits128),
                     steps |-> <<upper.steps, lower.steps>>,
                     guesses |-> <<guess_hi, guess_lo>>,
                     remainder_hi |-> full_upper_numerator - upper.product]
            IN  join(correct_guess(guess_lo, guess_lo * divisor_full_128,
                                   full_lower_numerator, divisor_full_128, 0))
    IN  lower_half(correct_guess(guess_hi, guess_hi * divisor_full_128,
                                 full_upper_numerator, divisor_full_128, 0))

divide_128_max_by_64(divisor) ==
    LET quotient_hi == NativeDiv(U64_MAX, divisor)
        prod_hi == quotient_hi * divisor
        remainder_hi == Wrap(U64_MAX - Wrap(prod_hi, Bits64), Bits64)
        leading_zeros_ == leading_zeros(divisor, Bits64)
        \* leading_zeros >= 32
        numerator_mid == BitOr(Shl(remainder_hi, HalfBits, Bits64), U32_MAX)
        quotient_mid == NativeDiv(numerator_mid, divisor)
        prod_mid == quotient_mid * divisor
        remainder_mid == Wrap(numerator_mid - Wrap(prod_mid, Bits64), Bits64)
        numerator_lo_small == BitOr(Shl(remainder_mid, HalfBits, Bits64), U32_MAX)
        quotient_lo_small == NativeDiv(numerator_lo_small, divisor)
        small == [v |-> BitOr(Shl(quotient_mid, HalfBits, Bits64), quotient_lo_small),
                  errs |-> Fits(prod_mid, Bits64)
                             \cup Fits(numerator_mid - Wrap(prod_mid, Bits64), Bits64)]
        \* leading_zeros < 32
        numerator_hi ==
            IF leading_zeros_ > 0
            THEN BitOr(Shl(remainder_hi, leading_zeros_, Bits64),
                       Shr(U64_MAX, Bits64 - leading_zeros_))
            ELSE remainder_hi
        numerator_lo == Shl(U64_MAX, leading_zeros_, Bits64)
        join(quotient_lo) ==
            [v |-> BitOr(Shl(quotient_hi, Bits64, Bits128), quotient_lo.v),
             errs |-> DivByZero(divisor) \cup Fits(prod_hi, Bits64)
                        \cup Fits(U64_MAX - Wrap(prod_hi, Bits64), Bits64)
                        \cup quotient_lo.errs,
             via |-> IF leading_zeros_ >= HalfBits THEN "divisions" ELSE "preshifted"]
    IN  IF leading_zeros_ >= HalfBits
        THEN join(small)
        ELSE join(divide_128_by_64_preshifted(numerator_hi, numerator_lo,
                                              Shl(divisor, leading_zeros_, Bits64)))

\* ------------------------------------------------- strength_reduced_u64!
\* $primitive_type is Bits64 bits wide, the intermediate u128 Bits128 bits
u64_new(divisor) ==
    IF divisor = 0 THEN [v |-> NoInstance, errs |-> {"assert divisor > 0"}]
    ELSE IF is_power_of_two(divisor)
    THEN [v |-> [multiplier |-> 0, divisor |-> divisor], errs |-> {}]
    ELSE LET store(quotient) ==
                 [v |-> [multiplier |-> Wrap(quotient.v + 1, Bits128), divisor |-> divisor],
                  errs |-> quotient.errs \cup Fits(quotient.v + 1, Bits128)]
         IN  store(divide_128_max_by_64(divisor))

\* u64_div_rem with the power-of-two remainder masked by the divisor itself
u64_div_rem_mask_by_divisor(numerator, denom) ==
    IF denom.multiplier = 0
    THEN [v |-> <<Shr(numerator, trailing_zeros(denom.divisor, Bits64)),
                  BitAnd(numerator, denom.divisor)>>,
          errs |-> {},
          via |-> <<"shift", "mask">>]
    ELSE LET hi == numerator * Shr(denom.multiplier, Bits64)
             lo == numerator * Wrap(denom.multiplier, Bits64)
             sum == Wrap(hi, Bits128) + Shr(Wrap(lo, Bits128), Bits64)
             quotient == Wrap(Shr(Wrap(sum, Bits128), Bits64), Bits64)
             diff == numerator - Wrap(quotient * denom.divisor, Bits64)
         IN  [v |-> <<quotient, Wrap(diff, Bits64)>>,
              errs |-> Fits(hi, Bits128) \cup Fits(lo, Bits128) \cup Fits(sum, Bits128)
                         \cup Fits(quotient * denom.divisor, Bits64) \cup Fits(diff, Bits64),
              via |-> <<"multiply", "quotient">>]

u64_div_rem(numerator, denom) ==
    IF denom.multiplier = 0
    THEN [v |-> <<Shr(numerator, trailing_zeros(denom.divisor, Bits64)),
                  BitAnd(numerator, Wrap(denom.divisor - 1, Bits64))>>,
          errs |-> Fits(denom.divisor - 1, Bits64),
          via |-> <<"shift", "mask">>]
    ELSE LET numerator128 == numerator
             hi == numerator128 * Shr(denom.multiplier, Bits64)
             multiplied_hi == Wrap(hi, Bits128)
             lo == numerator128 * Wrap(denom.multiplier, Bits64)
             multiplied_lo == Shr(Wrap(lo, Bits128), Bits64)
             sum == multiplied_hi + multiplied_lo
             quotient == Wrap(Shr(Wrap(sum, Bits128), Bits64), Bits64)
             prod == quotient * denom.divisor
             diff == numerator - Wrap(prod, Bits64)
         IN  [v |-> <<quotient, Wrap(diff, Bits64)>>,
              errs |-> Fits(hi, Bits128) \cup Fits(lo, Bits128) \cup Fits(sum, Bits128)
                         \cup Fits(prod, Bits64) \cup Fits(diff, Bits64),
              via |-> <<"multiply", "quotient">>]

u64_div(self, rhs) ==
    IF rhs.multiplier = 0
    THEN [v |-> Shr(self, trailing_zeros(rhs.divisor, Bits64)), errs |-> {},
          via |-> "shift"]
    ELSE LET numerator == self
             hi == numerator * Shr(rhs.multiplier, Bits64)
             multiplied_hi == Wrap(hi, Bits128)
             lo == numerator * Wrap(rhs.multiplier, Bits64)
             multiplied_lo == Shr(Wrap(lo, Bits128), Bits64)
             sum == multiplied_hi + multiplied_lo
         IN  [v |-> Wrap(Shr(Wrap(sum, Bits128), Bits64), Bits64),
              errs |-> Fits(hi, Bits128) \cup Fits(lo, Bits128) \cup Fits(sum, Bits128),
              via |-> "multiply"]

u64_rem(self, rhs) ==
    IF rhs.multiplier = 0
    THEN [v |-> BitAnd(self, Wrap(rhs.divisor - 1, Bits64)),
          errs |-> Fits(rhs.divisor - 1, Bits64), via |-> "mask"]
    ELSE LET subtract(quotient) ==
                 LET prod == quotient.v * rhs.divisor
                     diff == self - Wrap(prod, Bits64)
                 IN  [v |-> Wrap(diff, Bits64),
                      errs |-> quotient.errs \cup Fits(prod, Bits64)
                                 \cup Fits(diff, Bits64),
                      via |-> "quotient"]
         IN  subtract(u64_div(self, rhs))

u64_get(self) == self.divisor

\* --------------------------------------- long_division.rs, 256-bit division
divide_128_by_64_preshifted_reduced(numerator_hi, numerator_lo_64, divisor_hi, divisor_full) ==
    LET numerator_mid == Shr(numerator_lo_64, HalfBits)
        numerator_lo == Wrap(numerator_lo_64, HalfBits)
        divisor_full_128 == divisor_full
        full_upper_numerator == BitOr(Shl(numerator_hi, HalfBits, Bits128), numerator_mid)
        \* the lower half digit, after the loop that corrected the upper one
        lower_half(div_hi, upper) ==
            LET quotient_hi == upper.quotient
                full_upper_remainder ==
                    Wrap(full_upper_numerator - upper.product, Bits128)
                full_lower_numerator ==
                    BitOr(Shl(full_upper_remainder, HalfBits, Bits128), numerator_lo)
                join(div_lo, lower) ==
                    [v |-> BitOr(Shl(quotient_hi, HalfBits, Bits64), lower.quotient),
                     errs |-> div_hi.errs \cup div_lo.errs \cup upper.errs \cup lower.errs
                                \cup Fits(Min(div_hi.v, U32_MAX) * divisor_full_128, Bits128)
                                \cup Fits(Min(div_lo.v, U32_MAX) * divisor_full_128, Bits128)
                                \cup Fits(full_upper_numerator - upper.product, Bits128),
                     steps |-> <<upper.steps, lower.steps>>,
                     guesses |-> <<Min(div_hi.v, U32_MAX), Min(div_lo.v, U32_MAX)>>,
                     remainder_hi |-> full_upper_numerator - upper.product]
                correct_lo(div_lo) ==
                    join(div_lo,
                         correct_guess(Min(div_lo.v, U32_MAX),
                                       Min(div_lo.v, U32_MAX) * divisor_full_128,
                                       full_lower_numerator, divisor_full_128, 0))
            IN  correct_lo(u64_div(Wrap(full_upper_remainder, Bits64), divisor_hi))
        correct_hi(div_hi) ==
            lower_half(div_hi,
                       correct_guess(Min(div_hi.v, U32_MAX),
                                     Min(div_hi.v, U32_MAX) * divisor_full_128,
                                     full_upper_numerator, divisor_full_128, 0))
    IN  correct_hi(u64_div(numerator_hi, divisor_hi))

\* ------------------------------------------- divide_128 and its helpers
QuotientMightNotFit ==
    "The numerator is too large for the denominator; the quotient might not fit inside a u64."

\* divide_128_by_32_helper with the remainder of the first division dropped
divide_128_by_32_helper_remainder_dropped(numerator, divisor) ==
    LET shift_size == leading_zeros(divisor, HalfBits)
        shifted_divisor == Shl(divisor, shift_size, HalfBits)
        shifted_numerator == Shl(numerator, shift_size + HalfBits, Bits128)
        numerator_hi == Shr(shifted_numerator, Bits64)
        numerator_mid == Wrap(Shr(shifted_numerator, HalfBits), HalfBits)
    IN  IF ~(divisor > Shr(numerator, Bits64))
        THEN [v |-> 0, errs |-> {QuotientMightNotFit}, via |-> "assert", steps |-> <<0, 0>>]
        ELSE [v |-> BitOr(Shl(NativeDiv(numerator_hi, shifted_divisor), HalfBits, Bits64),
                          NativeDiv(numerator_mid, shifted_divisor)),
              errs |-> {}, via |-> "divide_128_by_32_helper", steps |-> <<0, 0>>]

divide_128_by_32_helper(numerator, divisor) ==
    LET shift_size == leading_zeros(divisor, HalfBits)
        shifted_divisor == Shl(divisor, shift_size, HalfBits)
        shifted_numerator == Shl(numerator, shift_size + HalfBits, Bits128)
        numerator_hi == Shr(shifted_numerator, Bits64)
        numerator_mid == Wrap(Shr(shifted_numerator, HalfBits), HalfBits)
        quotient_hi == NativeDiv(numerator_hi, shifted_divisor)
        remainder_hi == numerator_hi - quotient_hi * shifted_divisor
        final_numerator == BitOr(Shl(remainder_hi, HalfBits, Bits64), numerator_mid)
        quotient_lo == NativeDiv(final_numerator, shifted_divisor)
    IN  IF ~(divisor > Shr(numerator, Bits64))
        THEN [v |-> 0, errs |-> {QuotientMightNotFit}, via |-> "assert", steps |-> <<0, 0>>]
        ELSE [v |-> BitOr(Shl(quotient_hi, HalfBits, Bits64), quotient_lo),
              errs |-> DivByZero(shifted_divisor)
                         \cup Fits(quotient_hi * shifted_divisor, Bits64)
                         \cup Fits(remainder_hi, Bits64),
              via |-> "divide_128_by_32_helper",
              steps |-> <<0, 0>>]

\* `while partial_remainder <= U32_MAX && quotient * divisor_lo >
\*      (partial_remainder << 32) | numerator_next { quotient -= 1;
\*      partial_remainder += divisor_hi; }`, cut at its first failure
RECURSIVE helper_guess_loop(_, _, _, _, _, _)
helper_guess_loop(quotient, partial_remainder, divisor_hi, divisor_lo, numerator_next, steps) ==
    IF ~(/\ partial_remainder <= U32_MAX
         /\ quotient * divisor_lo
               > BitOr(Shl(partial_remainder, HalfBits, Bits64), numerator_next))
    THEN [quotient |-> quotient, partial_remainder |-> partial_remainder,
          steps |-> steps, errs |-> Fits(quotient * divisor_lo, Bits64)]
    ELSE IF Fits(quotient * divisor_lo, Bits64) \cup Fits(quotient - 1, Bits64)
               \cup Fits(partial_remainder + divisor_hi, Bits64) # {}
    THEN [quotient |-> quotient, partial_remainder |-> partial_remainder,
          steps |-> steps,
          errs |-> Fits(quotient * divisor_lo, Bits64) \cup Fits(quotient - 1, Bits64)
                     \cup Fits(partial_remainder + divisor_hi, Bits64)]
    ELSE helper_guess_loop(quotient - 1, partial_remainder + divisor_hi, divisor_hi,
                           divisor_lo, numerator_next, steps + 1)

\* divide_128_by_64_helper without its assertion
divide_128_by_64_helper_unasserted(numerator, divisor) ==
    LET shift_size == leading_zeros(divisor, Bits64)
        shifted_divisor == Shl(divisor, shift_size, Bits64)
        shifted_numerator == Shl(numerator, shift_size, Bits128)
        divisor_hi == Shr(shifted_divisor, HalfBits)
        divisor_lo == Wrap(shifted_divisor, HalfBits)
        numerator_hi == Shr(shifted_numerator, Bits64)
        numerator_mid == Wrap(Shr(shifted_numerator, HalfBits), HalfBits)
        numerator_lo == Wrap(shifted_numerator, HalfBits)
        guess_hi == Min(NativeDiv(numerator_hi, divisor_hi), U32_MAX)
        lower_half(upper) ==
            LET full_remainder_hi ==
                    Wrap(BitOr(Shl(upper.partial_remainder, HalfBits, Bits64), numerator_mid)
                           - upper.quotient * divisor_lo, Bits64)
                guess_lo == Min(NativeDiv(full_remainder_hi, divisor_hi), U32_MAX)
                join(lower) ==
                    [v |-> BitOr(Shl(upper.quotient, HalfBits, Bits64), lower.quotient),
                     errs |-> DivByZero(divisor_hi) \cup upper.errs \cup lower.errs,
                     via |-> "divide_128_by_64_helper",
                     steps |-> <<upper.steps, lower.steps>>]
            IN  join(helper_guess_loop(guess_lo, full_remainder_hi - guess_lo * divisor_hi,
                                       divisor_hi, divisor_lo, numerator_lo, 0))
    IN  IF divisor = 0
        THEN [v |-> 0, errs |-> DivByZero(divisor), via |-> "divide_128_by_64_helper",
              steps |-> <<0, 0>>]
        ELSE IF divisor <= U32_MAX
        THEN divide_128_by_32_helper(numerator, divisor)
        ELSE lower_half(helper_guess_loop(guess_hi, numerator_hi - guess_hi * divisor_hi,
                                          divisor_hi, divisor_lo, numerator_mid, 0))

divide_128_by_64_helper(numerator, divisor) ==
    LET shift_size == leading_zeros(divisor, Bits64)
        shifted_divisor == Shl(divisor, shift_size, Bits64)
        shifted_numerator == Shl(numerator, shift_size, Bits128)
        divisor_hi == Shr(shifted_divisor, HalfBits)
        divisor_lo == Wrap(shifted_divisor, HalfBits)
        numerator_hi == Shr(shifted_numerator, Bits64)
        numerator_mid == Wrap(Shr(shifted_numerator, HalfBits), HalfBits)
        numerator_lo == Wrap(shifted_numerator, HalfBits)
        guess_hi == Min(NativeDiv(numerator_hi, divisor_hi), U32_MAX)
        lower_half(upper) ==
            LET full_remainder_hi ==
                    Wrap(BitOr(Shl(upper.partial_remainder, HalfBits, Bits64), numerator_mid)
                           - upper.quotient * divisor_lo, Bits64)
                guess_lo == Min(NativeDiv(full_remainder_hi, divisor_hi), U32_MAX)
                join(lower) ==
                    [v |-> BitOr(Shl(upper.quotient, HalfBits, Bits64), lower.quotient),
                     errs |-> DivByZero(divisor_hi) \cup upper.errs \cup lower.errs,
                     via |-> "divide_128_by_64_helper",
                     steps |-> <<upper.steps, lower.steps>>]
            IN  join(helper_guess_loop(guess_lo, full_remainder_hi - guess_lo * divisor_hi,
                                       divisor_hi, divisor_lo, numerator_lo, 0))
    IN  IF ~(divisor > Shr(numerator, Bits64))
        THEN [v |-> 0, errs |-> {QuotientMightNotFit}, via |-> "assert", steps |-> <<0, 0>>]
        ELSE IF divisor <= U32_MAX
        THEN divide_128_by_32_helper(numerator, divisor)
        ELSE lower_half(helper_guess_loop(guess_hi, numerator_hi - guess_hi * divisor_hi,
                                          divisor_hi, divisor_lo, numerator_mid, 0))

\* divide_128 handing every numerator to divide_128_by_64_helper as it is when
\* the divisor fits 64 bits, without splitting it
divide_128_numerator_not_split(numerator, divisor) ==
    LET whole(quotient) ==
            [v |-> quotient.v, errs |-> quotient.errs, via |-> "whole",
             estimate |-> quotient.v, corrected |-> 0]
        shift_size == leading_zeros(divisor, Bits128)
        shifted_divisor == Shl(divisor, shift_size, Bits128)
        estimated(upper_quotient) ==
            LET estimate == Shr(upper_quotient.v, Bits64 - 1 - shift_size)
                quotient == IF estimate > 0 THEN estimate - 1 ELSE 0
                remainder == numerator - quotient * divisor
            IN  [v |-> IF remainder >= divisor THEN quotient + 1 ELSE quotient,
                 errs |-> upper_quotient.errs \cup Fits(remainder, Bits128),
                 via |-> "estimate", estimate |-> estimate,
                 corrected |-> IF remainder >= divisor THEN 1 ELSE 0]
    IN  IF divisor <= U64_MAX
        THEN whole(divide_128_by_64_helper(numerator, Wrap(divisor, Bits64)))
        ELSE estimated(divide_128_by_64_helper(Shr(numerator, 1),
                                               Shr(shifted_divisor, Bits64)))

divide_128(numerator, divisor) ==
    LET divisor64 == Wrap(divisor, Bits64)
        upper_numerator == Shr(numerator, Bits64)
        \* divisor64 > upper_numerator
        whole(quotient) ==
            [v |-> quotient.v, errs |-> quotient.errs, via |-> "whole",
             estimate |-> quotient.v, corrected |-> 0]
        \* divisor64 <= upper_numerator
        split ==
            LET upper_quotient == NativeDiv(upper_numerator, divisor64)
                upper_remainder == upper_numerator - upper_quotient * divisor64
                intermediate_numerator ==
                    BitOr(Shl(upper_remainder, Bits64, Bits128), Wrap(numerator, Bits64))
                join(lower_quotient) ==
                    [v |-> BitOr(Shl(upper_quotient, Bits64, Bits128), lower_quotient.v),
                     errs |-> DivByZero(divisor64) \cup lower_quotient.errs
                                \cup Fits(upper_quotient * divisor64, Bits64)
                                \cup Fits(upper_remainder, Bits64),
                     via |-> "split", estimate |-> lower_quotient.v, corrected |-> 0]
            IN  join(divide_128_by_64_helper(intermediate_numerator, divisor64))
        \* divisor > U64_MAX
        shift_size == leading_zeros(divisor, Bits128)
        shifted_divisor == Shl(divisor, shift_size, Bits128)
        shifted_numerator == Shr(numerator, 1)
        estimated(upper_quotient) ==
            LET estimate == Shr(upper_quotient.v, Bits64 - 1 - shift_size)
                quotient == IF estimate > 0 THEN estimate - 1 ELSE 0
                remainder == numerator - quotient * divisor
            IN  [v |-> IF remainder >= divisor THEN quotient + 1 ELSE quotient,
                 errs |-> upper_quotient.errs
                            \cup Chk(Bits64 - 1 - shift_size \in 0..(Bits64 - 1),
                                     "attempt to shift right with overflow")
                            \cup Fits(quotient * divisor, Bits128)
                            \cup Fits(remainder, Bits128)
                            \cup Fits(IF remainder >= divisor THEN quotient + 1 ELSE quotient,
                                      Bits64),
                 via |-> "estimate", estimate |-> estimate,
                 corrected |-> IF remainder >= divisor THEN 1 ELSE 0]
    IN  IF divisor <= U64_MAX
        THEN IF divisor64 > upper_numerator
             THEN whole(divide_128_by_64_helper(numerator, divisor64))
             ELSE split
        ELSE estimated(divide_128_by_64_helper(shifted_numerator,
                                               Shr(shifted_divisor, Bits64)))

\* the loop of long_division over the chunks i, i-1, .., 1 (the source's i-1 .. 0);
\* passes lists, from the first pass on, the remainder a pass started with, the
\* remainder between its two divisions, the quotients it stored in the chunk
\* and the remainder it left
RECURSIVE long_division_loop(_, _, _, _, _)
long_division_loop(numerator_slice, reduced_divisor, quotient, i, remainder) ==
    IF i = 0 THEN [v |-> quotient, errs |-> {}, remainder |-> remainder, passes |-> <<>>]
    ELSE LET numerator_element == numerator_slice[i]
             upper_numerator == BitOr(Shl(remainder, HalfBits, Bits64),
                                      Shr(numerator_element, HalfBits))
             checked(rest, errs, pass) ==
                 [v |-> rest.v, errs |-> rest.errs \cup errs, remainder |-> rest.remainder,
                  passes |-> <<pass>> \o rest.passes]
             \* remainder > 0: the two half digits
             store_halves(upper, lower) ==
                 checked(long_division_loop(numerator_slice, reduced_divisor,
                             [quotient EXCEPT
                                 ![i] = BitOr(Shl(upper.v[1], HalfBits, Bits64), lower.v[1])],
                             i - 1, lower.v[2]),
                         upper.errs \cup lower.errs,
                         [remainder |-> remainder, upper_remainder |-> upper.v[2],
                          quotients |-> <<upper.v[1], lower.v[1]>>,
                          lower_remainder |-> lower.v[2]])
             lower_half(upper) ==
                 store_halves(upper,
                              u64_div_rem(BitOr(Shl(upper.v[2], HalfBits, Bits64),
                                                Wrap(numerator_element, HalfBits)),
                                          reduced_divisor))
             \* remainder = 0: the whole chunk at once
             store_digit(digit) ==
                 checked(long_division_loop(numerator_slice, reduced_divisor,
                             [quotient EXCEPT ![i] = digit.v[1]], i - 1, digit.v[2]),
                         digit.errs,
                         [remainder |-> remainder, upper_remainder |-> 0,
                          quotients |-> <<digit.v[1]>>,
                          lower_remainder |-> digit.v[2]])
         IN  IF remainder > 0
             THEN lower_half(u64_div_rem(upper_numerator, reduced_divisor))
             ELSE store_digit(u64_div_rem(numerator_element, reduced_divisor))

\* long_division starting with a remainder of one instead of `let mut remainder = 0`
long_division_remainder_not_cleared(numerator_slice, reduced_divisor, quotient) ==
    long_division_loop(numerator_slice, reduced_divisor, quotient,
                       Min(Len(numerator_slice), Len(quotient)), 1)

\* long_division leaving the most significant chunk undivided
long_division_top_chunk_skipped(numerator_slice, reduced_divisor, quotient) ==
    long_division_loop(numerator_slice, reduced_divisor, quotient,
                       Min(Len(numerator_slice), Len(quotient)) - 1, 0)

long_division(numerator_slice, reduced_divisor, quotient) ==
    long_division_loop(numerator_slice, reduced_divisor, quotient,
                       Min(Len(numerator_slice), Len(quotient)), 0)

RECURSIVE normalize_slice(_)
normalize_slice(input) ==
    IF Len(input) > 0 /\ input[Len(input)] = 0
    THEN normalize_slice(SubSeq(input, 1, Len(input) - 1))
    ELSE input

\* the comparison loop of is_slice_greater from digit i down to 1
RECURSIVE slice_greater_from(_, _, _)
slice_greater_from(a, b, i) ==
    IF i = 0 THEN FALSE
    ELSE IF a[i] < b[i] THEN FALSE
    ELSE IF a[i] > b[i] THEN TRUE
    ELSE slice_greater_from(a, b, i - 1)

is_slice_greater(a, b) ==
    IF Len(a) > Len(b) THEN TRUE
    ELSE IF Len(b) > Len(a) THEN FALSE
    ELSE slice_greater_from(a, b, Len(a))

\* `while borrow != 0 { a_element.next().expect(..) ... }` with the signed borrow
RECURSIVE borrow_through(_, _, _)
borrow_through(a, j, borrow) ==
    IF borrow = 0 THEN [v |-> a, errs |-> {}]
    ELSE IF j >= Len(a) THEN [v |-> a, errs |-> {"borrow underflow during sub_assign"}]
    ELSE borrow_through([a EXCEPT ![j + 1] = (borrow + a[j + 1]) % Pow2(Bits64)], j + 1,
                        (borrow + a[j + 1]) \div Pow2(Bits64))

\* `for (a, b) in a_lo.iter_mut().zip(b)` of sub_assign, then the borrow loop
RECURSIVE subtract_digits(_, _, _, _)
subtract_digits(a, b, i, borrow) ==
    IF i >= Len(b) THEN borrow_through(a, Len(b), borrow)
    ELSE subtract_digits([a EXCEPT ![i + 1] = (borrow + a[i + 1] - b[i + 1]) % Pow2(Bits64)],
                         b, i + 1, (borrow + a[i + 1] - b[i + 1]) \div Pow2(Bits64))

sub_assign(a, b) ==
    IF Len(b) > Len(a) THEN [v |-> a, errs |-> {"split_at_mut: mid > len"}]
    ELSE subtract_digits(a, b, 0, 0)

divide_256_max_by_32(divisor) ==
    LET numerator_chunks == Repeat(U64_MAX, 4)
        join(reduced_divisor, quotient_chunks) ==
            [v |-> << BitOr(quotient_chunks.v[3], Shl(quotient_chunks.v[4], Bits64, Bits128)),
                      BitOr(quotient_chunks.v[1], Shl(quotient_chunks.v[2], Bits64, Bits128)) >>,
             errs |-> reduced_divisor.errs \cup quotient_chunks.errs,
             trace |-> <<>>]
        divide(reduced_divisor) ==
            join(reduced_divisor,
                 long_division(numerator_chunks, reduced_divisor.v, Zeros(4)))
    IN  divide(u64_new(divisor))

\* correct_sub_quotient without its loop: the guess is kept as it is
correct_sub_quotient_uncorrected(sub_product, window, divisor_slice, sub_quotient, steps) ==
    [sub_product |-> sub_product, sub_quotient |-> sub_quotient, steps |-> steps,
     errs |-> {}]

\* `while is_slice_greater(sub_product, ..) { sub_assign(..); sub_quotient -= 1; }`
\* sub_product keeps the length normalize_slice gave it; the loop is cut at its
\* first failure
RECURSIVE correct_sub_quotient(_, _, _, _, _)
correct_sub_quotient(sub_product, window, divisor_slice, sub_quotient, steps) ==
    IF ~is_slice_greater(sub_product, window)
    THEN [sub_product |-> sub_product, sub_quotient |-> sub_quotient,
          steps |-> steps, errs |-> {}]
    ELSE LET decrement(less) ==
                 IF less.errs # {} \/ sub_quotient = 0
                 THEN [sub_product |-> less.v,
                       sub_quotient |-> Wrap(sub_quotient - 1, Bits64),
                       steps |-> steps + 1,
                       errs |-> less.errs \cup Fits(sub_quotient - 1, Bits64)]
                 ELSE correct_sub_quotient(less.v, window, divisor_slice,
                                           sub_quotient - 1, steps + 1)
         IN  decrement(sub_assign(sub_product, divisor_slice))

RECURSIVE TrailingZeroChunks(_)
TrailingZeroChunks(slice) ==
    IF Len(slice) > 0 /\ slice[Len(slice)] = 0
    THEN 1 + TrailingZeroChunks(SubSeq(slice, 1, Len(slice) - 1))
    ELSE 0

\* the body of `for quotient_idx in (0..num_quotient_chunks).rev()`, run for
\* quotient_idx, quotient_idx - 1, .., 0; st holds the loop's mutable state
RECURSIVE quotient_digits(_, _, _, _, _)
quotient_digits(st, quotient_idx, divisor_slice, reduced_divisor_hi, divisor_hi) ==
    IF quotient_idx < 0 THEN st
    ELSE
    LET numerator_slice == SubSeq(st.numerator_chunks, 1, st.numerator_max_idx)
        numerator_start_idx == quotient_idx + Len(divisor_slice) - 1
        numerator_hi == IF Len(numerator_slice) - numerator_start_idx > 1
                        THEN numerator_slice[numerator_start_idx + 2] ELSE 0
        numerator_lo == numerator_slice[numerator_start_idx + 1]
        window == SubSeq(numerator_slice, quotient_idx + 1, Len(numerator_slice))
        \* the loop's state after this digit
        store(guess, tmp_product, fixed, rest) ==
            [numerator_chunks |->
                 SubSeq(numerator_slice, 1, quotient_idx) \o rest.v
                     \o SubSeq(st.numerator_chunks, st.numerator_max_idx + 1,
                               Len(st.numerator_chunks)),
             numerator_max_idx |->
                 st.numerator_max_idx
                     - TrailingZeroChunks(SubSeq(numerator_slice, 1, quotient_idx) \o rest.v),
             quotient_chunks |->
                 [st.quotient_chunks EXCEPT ![quotient_idx + 1] = fixed.sub_quotient],
             errs |-> st.errs \cup guess.errs \cup tmp_product.errs
                        \cup fixed.errs \cup rest.errs,
             trace |-> Append(st.trace,
                         [quotient_idx |-> quotient_idx,
                          numerator_hi |-> numerator_hi,
                          numerator_lo |-> numerator_lo,
                          guess |-> guess.v,
                          half_steps |-> guess.steps,
                          half_guesses |-> guess.guesses,
                          remainder_hi |-> guess.remainder_hi,
                          steps |-> fixed.steps,
                          sub_quotient |-> fixed.sub_quotient,
                          window |-> window,
                          remaining |-> rest.v])]
        \* sub_assign(&mut numerator_slice[quotient_idx..], sub_product)
        subtract(guess, tmp_product, fixed) ==
            store(guess, tmp_product, fixed, sub_assign(window, fixed.sub_product))
        \* normalize_slice and the while loop
        correct(guess, tmp_product) ==
            subtract(guess, tmp_product,
                     correct_sub_quotient(normalize_slice(tmp_product.v), window,
                                          divisor_slice, guess.v, 0))
        \* long_multiply into tmp_product = [0; 3]
        multiply(guess) ==
            correct(guess, long_multiply(divisor_slice, guess.v, Zeros(3)))
        next == multiply(divide_128_by_64_preshifted_reduced(numerator_hi, numerator_lo,
                                                             reduced_divisor_hi, divisor_hi))
    IN  IF numerator_start_idx >= Len(numerator_slice)
        THEN quotient_digits(st, quotient_idx - 1, divisor_slice, reduced_divisor_hi,
                             divisor_hi)
        ELSE quotient_digits(next, quotient_idx - 1, divisor_slice, reduced_divisor_hi,
                             divisor_hi)

divide_256_max_by_128(divisor) ==
    LET leading_zeros_ == leading_zeros(divisor, Bits128)
        empty_divisor_chunks == leading_zeros_ \div Bits64
        shift_amount == leading_zeros_ % Bits64
        divisor_shifted == Shl(divisor, shift_amount, Bits128)
        divisor_chunks == << Wrap(divisor_shifted, Bits64),
                             Wrap(Shr(divisor_shifted, Bits64), Bits64) >>
        divisor_slice == SubSeq(divisor_chunks, 1, Len(divisor_chunks) - empty_divisor_chunks)
        divisor_hi == divisor_slice[Len(divisor_slice)]
        numerator_chunks ==
            IF shift_amount > 0
            THEN [Repeat(U64_MAX, 5) EXCEPT ![5] = Shr(U64_MAX, Bits64 - shift_amount),
                                            ![1] = Shl(U64_MAX, shift_amount, Bits64)]
            ELSE Repeat(U64_MAX, 5)
        numerator_max_idx == IF shift_amount > 0 THEN 5 ELSE 4
        num_quotient_chunks == 3 + empty_divisor_chunks
        \* recombine quotient_chunks into u128s
        recombine(done) ==
            [v |-> << BitOr(done.quotient_chunks[3],
                            Shl(done.quotient_chunks[4], Bits64, Bits128)),
                      BitOr(done.quotient_chunks[1],
                            Shl(done.quotient_chunks[2], Bits64, Bits128)) >>,
             errs |-> done.errs,
             trace |-> done.trace]
        divide(reduced_divisor_hi) ==
            recombine(quotient_digits([numerator_chunks |-> numerator_chunks,
                                       numerator_max_idx |-> numerator_max_idx,
                                       quotient_chunks |-> Zeros(4),
                                       errs |-> reduced_divisor_hi.errs,
                                       trace |-> <<>>],
                                      num_quotient_chunks - 1, divisor_slice,
                                      reduced_divisor_hi.v, divisor_hi))
    IN  IF leading_zeros_ >= 3 * HalfBits
        THEN divide_256_max_by_32(Wrap(divisor, HalfBits))
        ELSE divide(u64_new(Shr(divisor_hi, HalfBits)))

\* ---------------------------------------------------- StrengthReducedU128
NoInstance128 == [multiplier_hi |-> 0, multiplier_lo |-> 0, divisor |-> 0]

U128_new(divisor) ==
    IF divisor = 0 THEN [v |-> NoInstance128, errs |-> {"assert divisor > 0"}]
    ELSE IF is_power_of_two(divisor)
    THEN [v |-> [multiplier_hi |-> 0, multiplier_lo |-> 0, divisor |-> divisor],
          errs |-> {}]
    ELSE LET store(quotient) ==
                 LET quotient_hi == quotient.v[1]
                     quotient_lo == quotient.v[2]
                     multiplier_lo == Wrap(quotient_lo + 1, Bits128)
                     multiplier_hi == IF multiplier_lo = 0
                                      THEN Wrap(quotient_hi + 1, Bits128)
                                      ELSE quotient_hi
                 IN  [v |-> [multiplier_hi |-> multiplier_hi,
                             multiplier_lo |-> multiplier_lo,
                             divisor |-> divisor],
                      errs |-> quotient.errs
                                 \cup (IF multiplier_lo = 0
                                       THEN Fits(quotient_hi + 1, Bits128) ELSE {})]
         IN  store(divide_256_max_by_128(divisor))

\* U128_div without the dispatch on multiplier_hi: every divisor multiplies
U128_div_always_multiplies(self, rhs) ==
    LET upperbits(product) ==
            [v |-> product.v, errs |-> product.errs, via |-> "multiply"]
    IN  upperbits(multiply_256_by_128_upperbits(rhs.multiplier_hi, rhs.multiplier_lo, self))

U128_div(self, rhs) ==
    IF rhs.multiplier_hi = 0
    THEN [v |-> Shr(self, trailing_zeros(rhs.divisor, Bits128)), errs |-> {},
          via |-> "shift"]
    ELSE LET upperbits(product) ==
                 [v |-> product.v, errs |-> product.errs, via |-> "multiply"]
         IN  upperbits(multiply_256_by_128_upperbits(rhs.multiplier_hi,
                                                     rhs.multiplier_lo, self))

U128_rem(self, rhs) ==
    IF rhs.multiplier_hi = 0
    THEN [v |-> BitAnd(self, Wrap(rhs.divisor - 1, Bits128)),
          errs |-> Fits(rhs.divisor - 1, Bits128), via |-> "mask"]
    ELSE LET subtract(quotient) ==
                 LET prod == quotient.v * rhs.divisor
                     diff == self - Wrap(prod, Bits128)
                 IN  [v |-> Wrap(diff, Bits128),
                      errs |-> quotient.errs \cup Fits(prod, Bits128)
                                 \cup Fits(diff, Bits128),
                      via |-> "quotient"]
         IN  subtract(multiply_256_by_128_upperbits(rhs.multiplier_hi,
                                                    rhs.multiplier_lo, self))

U128_div_rem(numerator, denom) ==
    LET subtract(quotient) ==
            LET prod == quotient.v * denom.divisor
                diff == numerator - Wrap(prod, Bits128)
            IN  [v |-> <<quotient.v, Wrap(diff, Bits128)>>,
                 errs |-> quotient.errs \cup Fits(prod, Bits128) \cup Fits(diff, Bits128),
                 via |-> <<quotient.via, "quotient">>]
    IN  subtract(U128_div(numerator, denom))

\* U128_get reading the low half of the multiplier, the field next to the divisor
U128_get_multiplier_lo(self) == self.multiplier_lo

U128_get(self) == self.divisor

\* ------------------------------------------------------------ the types
\* <<struct, macro>>: the public structs and the code each is generated from;
\* StrengthReducedUsize is one of the three macros, by target_pointer_width
Types ==
    { <<"StrengthReducedU8", "U8">>,
      <<"StrengthReducedU16", "u16">>,
      <<"StrengthReducedU32", "u32">>,
      <<"StrengthReducedU64", "u64">>,
      <<"StrengthReducedU128", "U128">>,
      <<"StrengthReducedUsize", "u16">>,
      <<"StrengthReducedUsize", "u32">>,
      <<"StrengthReducedUsize", "u64">> }

\* width of the primitive type of each implementation
Width(m) ==
    CASE m = "U8" -> BitsU8
      [] m = "u16" -> ModelBitsU16
      [] m = "u32" -> ModelBitsU32
      [] m = "u64" -> Bits64
      [] m = "U128" -> Bits128

MaxValue(m) == Pow2(Width(m)) - 1

new(m, divisor) ==
    CASE m = "U8" -> U8_new(divisor)
      [] m = "u16" -> u16_new(divisor)
      [] m = "u32" -> u32_new(divisor)
      [] m = "u64" -> u64_new(divisor)
      [] m = "U128" -> U128_new(divisor)

div(m, numerator, rhs) ==
    CASE m = "U8" -> U8_div(numerator, rhs)
      [] m = "u16" -> u16_div(numerator, rhs)
      [] m = "u32" -> u32_div(numerator, rhs)
      [] m = "u64" -> u64_div(numerator, rhs)
      [] m = "U128" -> U128_div(numerator, rhs)

rem(m, numerator, rhs) ==
    CASE m = "U8" -> U8_rem(numerator, rhs)
      [] m = "u16" -> u16_rem(numerator, rhs)
      [] m = "u32" -> u32_rem(numerator, rhs)
      [] m = "u64" -> u64_rem(numerator, rhs)
      [] m = "U128" -> U128_rem(numerator, rhs)

div_rem(m, numerator, denom) ==
    CASE m = "U8" -> U8_div_rem(numerator, denom)
      [] m = "u16" -> u16_div_rem(numerator, denom)
      [] m = "u32" -> u32_div_rem(numerator, denom)
      [] m = "u64" -> u64_div_rem(numerator, denom)
      [] m = "U128" -> U128_div_rem(numerator, denom)

get(m, self) ==
    CASE m = "U8" -> U8_get(self)
      [] m = "u16" -> u16_get(self)
      [] m = "u32" -> u32_get(self)
      [] m = "u64" -> u64_get(self)
      [] m = "U128" -> U128_get(self)

\* the multiplier field the divide dispatches on (multiplier_hi for u128)
DispatchMultiplier(m, r) == IF m = "U128" THEN r.multiplier_hi ELSE r.multiplier

\* ------------------------------------------------------------ the inputs
\* divisors at the boundaries of the width: the powers of two and their neighbours
BoundaryDivisors(m) ==
    LET max == MaxValue(m)
        pows == { Pow2(k) : k \in 0..(Width(m) - 1) }
    IN  { d \in {0, 3, 5, 6, 7, max \div 3, max - 2, max - 1, max}
                \cup pows \cup { p - 1 : p \in pows } \cup { p + 1 : p \in pows } :
          d >= 0 /\ d <= max }

\* 2^k mod d, by k doublings
RECURSIVE Pow2Mod(_, _)
Pow2Mod(k, d) == IF k = 0 THEN 1 % d ELSE (2 * Pow2Mod(k - 1, d)) % d

\* 128-bit divisors of two chunks whose normalised leading half digit is
\* U32_MAX and for which the remainder (2^(192 + shift) - 1) mod (D << shift),
\* carried into the last quotient digit of divide_256_max_by_128, has the
\* leading chunk of the normalised divisor: the numerator_hi handed to
\* divide_128_by_64_preshifted_reduced then equals divisor_hi
CarriedLeadingChunkDivisors ==
    { Shr(c[1], c[2]) :
        c \in { x \in ((U128_MAX - Pow2(3 * HalfBits) + 1)..U128_MAX) \X (0..(Bits64 - 1)) :
                  /\ x[1] % Pow2(x[2]) = 0
                  /\ Shr((Pow2Mod(3 * Bits64 + x[2], x[1]) + x[1] - 1) % x[1], Bits64)
                         = Shr(x[1], Bits64) } }

Divisors(m) ==
    IF Pow2(Width(m)) <= MaxExhaustive THEN 0..MaxValue(m)
    ELSE IF m = "U128" THEN BoundaryDivisors(m) \cup CarriedLeadingChunkDivisors
    ELSE BoundaryDivisors(m)

\* numerators at the boundaries of the width and of the multiples of d
BoundaryNumerators(m, d) ==
    LET max == MaxValue(m)
        top == (max \div d) * d
        half == Pow2(Width(m) \div 2)
        pows == { Pow2(k) : k \in 0..(Width(m) - 1) }
    IN  { n \in { 0, 1, 2, d - 1, d, d + 1, 2 * d - 1, 2 * d, top - 1, top, top + 1,
                  top - d - 1, top - d, half - 1, half, half + 1, max - half,
                  max \div 2, (max \div 2) + 1, (max \div 2) - ((max \div 2) % d) - 1,
                  max - 1, max }
                \cup { p * d - 1 : p \in { q \in pows : q <= max \div d } }
                \cup { p * d : p \in { q \in pows : q <= max \div d } } :
          n >= 0 /\ n <= max }

\* every numerator of the width for the 8-, 16- and 32-bit code; the 64- and
\* 128-bit code, whose widths are multiples of HalfBits, takes the numerators
\* at the boundaries
Numerators(m, d) ==
    IF m \notin {"u64", "U128"} /\ Pow2(Width(m)) <= MaxExhaustive
    THEN 0..MaxValue(m)
    ELSE BoundaryNumerators(m, d)

\* -------------------------------------------------------------- the state
VARIABLES
    struct_name,    \* the struct of the live reduced divisor, "none" before new
    macro,          \* the implementation the struct is generated from
    new_divisor,    \* the divisor new was called with
    reduced,        \* the fields of the reduced divisor
    pc,             \* "start", "ready", "returned" or "panicked"
    call,           \* the last call: [fn |-> name, args |-> arguments]
    ret,            \* the values it returned
    detail,         \* what the call did inside: the branches a divide or a modulo
                    \* took, the per-digit records of a long division
    failure         \* the fatal outcomes the last call raised

vars == <<struct_name, macro, new_divisor, reduced, pc, call, ret, detail, failure>>

NoCall == [fn |-> "none", args |-> <<>>]

Init ==
    /\ struct_name = "none"
    /\ macro = "none"
    /\ new_divisor = 0
    /\ reduced = NoInstance
    /\ pc = "start"
    /\ call = NoCall
    /\ ret = <<>>
    /\ detail = <<>>
    /\ failure = {}

\* StrengthReduced##::new(divisor)
New(t, divisor) ==
    /\ pc = "start"
    /\ LET r == new(t[2], divisor)
       IN  /\ call' = [fn |-> "new", args |-> <<divisor>>]
           /\ failure' = r.errs
           /\ new_divisor' = divisor
           /\ macro' = t[2]
           /\ IF r.errs = {}
              THEN /\ struct_name' = t[1]
                   /\ reduced' = r.v
                   /\ pc' = "ready"
              ELSE /\ pc' = "panicked"
                   /\ UNCHANGED <<struct_name, reduced>>
    /\ UNCHANGED <<ret, detail>>

\* the outcome of a call on a numerator: its values, the branches it took
Returns(fn, numerator, r, values, branches) ==
    /\ call' = [fn |-> fn, args |-> <<numerator>>]
    /\ failure' = r.errs
    /\ ret' = IF r.errs = {} THEN values ELSE <<>>
    /\ detail' = branches
    /\ pc' = IF r.errs = {} THEN "returned" ELSE "panicked"
    /\ UNCHANGED <<struct_name, macro, new_divisor, reduced>>

\* numerator / reduced
Div(numerator) ==
    /\ pc = "ready"
    /\ LET r == div(macro, numerator, reduced) IN Returns("div", numerator, r, <<r.v>>, <<r.via>>)

\* numerator % reduced
Rem(numerator) ==
    /\ pc = "ready"
    /\ LET r == rem(macro, numerator, reduced) IN Returns("rem", numerator, r, <<r.v>>, <<r.via>>)

\* StrengthReduced##::div_rem(numerator, reduced)
DivRem(numerator) ==
    /\ pc = "ready"
    /\ LET r == div_rem(macro, numerator, reduced) IN Returns("div_rem", numerator, r, r.v, r.via)

\* reduced.get(), on a fresh reduced divisor or right after a call that used
\* it: detail keeps the branches that call took
Get ==
    /\ pc \in {"ready", "returned"}
    /\ call' = [fn |-> "get", args |-> <<>>]
    /\ ret' = <<get(macro, reduced)>>
    /\ pc' = "returned"
    /\ failure' = {}
    /\ UNCHANGED <<struct_name, macro, new_divisor, reduced, detail>>

\* the caller takes the result; the reduced divisor (a Copy value) stays usable
Continue ==
    /\ pc = "returned"
    /\ pc' = "ready"
    /\ call' = [fn |-> "new", args |-> <<new_divisor>>]
    /\ ret' = <<>>
    /\ detail' = <<>>
    /\ UNCHANGED <<struct_name, macro, new_divisor, reduced, failure>>

Next ==
    \/ \E t \in Types : \E d \in Divisors(t[2]) : New(t, d)
    \/ pc = "ready" /\ \E n \in Numerators(macro, reduced.divisor) : Div(n)
    \/ pc = "ready" /\ \E n \in Numerators(macro, reduced.divisor) : Rem(n)
    \/ pc = "ready" /\ \E n \in Numerators(macro, reduced.divisor) : DivRem(n)
    \/ Get
    \/ Continue

Spec == Init /\ [][Next]_vars


\* ------------------------------------------- the wide engines on their own
\* divide_256_max_by_128 applied to one divisor, drawn by the initial state
InitDivide256 ==
    /\ struct_name = "none"
    /\ macro = "none"
    /\ new_divisor = 0
    /\ reduced = NoInstance
    /\ pc = "called"
    /\ call \in { [fn |-> "divide_256_max_by_128", args |-> <<divisor>>] :
                     divisor \in IF U128_MAX < MaxEngineInputs THEN 1..U128_MAX
                                 ELSE Divisors("U128") \ {0} }
    /\ ret = <<>>
    /\ detail = <<>>
    /\ failure = {}

\* the outcome of a call of an engine: its value, what it did inside
EngineReturns(r, inside) ==
    /\ failure' = r.errs
    /\ ret' = IF r.errs = {} THEN r.v ELSE <<>>
    /\ detail' = inside
    /\ pc' = IF r.errs = {} THEN "returned" ELSE "panicked"
    /\ UNCHANGED <<struct_name, macro, new_divisor, reduced, call>>

\* the per-digit records of the long division
Trace(r) == r.trace

Divide256 ==
    /\ pc = "called"
    /\ call.fn = "divide_256_max_by_128"
    /\ LET returns(r) == EngineReturns(r, Trace(r))
       IN  returns(divide_256_max_by_128(call.args[1]))

NextDivide256 == Divide256

SpecDivide256 == InitDivide256 /\ [][NextDivide256]_vars

\* 64-bit digits handed to divide_128_by_64_preshifted_reduced: every one while
\* they can be enumerated, else the ones made of two boundary half digits
PreshiftedDigits ==
    IF U64_MAX < MaxExhaustive THEN 0..U64_MAX
    ELSE { hi * Pow2(HalfBits) + lo :
             hi \in {0, 1, Pow2(HalfBits - 1), U32_MAX - 1, U32_MAX},
             lo \in {0, 1, Pow2(HalfBits - 1), U32_MAX - 1, U32_MAX} }

\* upper numerator digits for a divisor: the smallest ones, the ones that fill
\* the low half digit, one in the middle and the largest ones
\* divide_256_max_by_128 can carry, the divisor included
PreshiftedUpperDigits(divisor_full) ==
    {0, 1, U32_MAX \div 2, U32_MAX, divisor_full \div 2, divisor_full - 1, divisor_full}

\* divide_128_by_64_preshifted or divide_128_by_64_preshifted_reduced applied to
\* the operands the initial state draws: a divisor with its top bit set (for
\* the latter reduced by its upper half as divide_256_max_by_128 reduces it)
\* and a numerator whose upper digit is at most the divisor
InitPreshifted ==
    /\ struct_name = "none"
    /\ macro = "none"
    /\ new_divisor = 0
    /\ reduced = NoInstance
    /\ pc = "called"
    /\ \E divisor_full \in PreshiftedDigits \cap (Pow2(Bits64 - 1)..U64_MAX) :
          \E numerator_hi \in PreshiftedUpperDigits(divisor_full) :
             \E numerator_lo \in PreshiftedDigits :
                \E fn \in {"divide_128_by_64_preshifted",
                            "divide_128_by_64_preshifted_reduced"} :
                   call = [fn |-> fn,
                           args |-> <<numerator_hi, numerator_lo, divisor_full>>]
    /\ ret = <<>>
    /\ detail = <<>>
    /\ failure = {}

PreshiftedReduced ==
    /\ pc = "called"
    /\ call.fn = "divide_128_by_64_preshifted_reduced"
    /\ LET returns(r) ==
               /\ failure' = r.errs
               /\ ret' = IF r.errs = {} THEN <<r.v>> ELSE <<>>
               /\ detail' = [guesses |-> r.guesses, steps |-> r.steps,
                             remainder_hi |-> r.remainder_hi]
               /\ pc' = IF r.errs = {} THEN "returned" ELSE "panicked"
               /\ UNCHANGED <<struct_name, macro, new_divisor, reduced, call>>
           divide(divisor_hi) ==
               returns([ divide_128_by_64_preshifted_reduced(
                             call.args[1], call.args[2], divisor_hi.v, call.args[3])
                         EXCEPT !.errs = @ \cup divisor_hi.errs ])
       IN  divide(u64_new(Shr(call.args[3], HalfBits)))

Preshifted ==
    /\ pc = "called"
    /\ call.fn = "divide_128_by_64_preshifted"
    /\ LET returns(r) ==
               /\ failure' = r.errs
               /\ ret' = IF r.errs = {} THEN <<r.v>> ELSE <<>>
               /\ detail' = [guesses |-> r.guesses, steps |-> r.steps,
                             remainder_hi |-> r.remainder_hi]
               /\ pc' = IF r.errs = {} THEN "returned" ELSE "panicked"
               /\ UNCHANGED <<struct_name, macro, new_divisor, reduced, call>>
       IN  returns(divide_128_by_64_preshifted(call.args[1], call.args[2], call.args[3]))

NextPreshifted == PreshiftedReduced \/ Preshifted

SpecPreshifted == InitPreshifted /\ [][NextPreshifted]_vars

\* divide_128_max_by_64 applied to the divisor the initial state draws
InitDivide128 ==
    /\ struct_name = "none"
    /\ macro = "none"
    /\ new_divisor = 0
    /\ reduced = NoInstance
    /\ pc = "called"
    /\ call \in { [fn |-> "divide_128_max_by_64", args |-> <<divisor>>] :
                     divisor \in 1..U64_MAX }
    /\ ret = <<>>
    /\ detail = <<>>
    /\ failure = {}

Divide128 ==
    /\ pc = "called"
    /\ call.fn = "divide_128_max_by_64"
    /\ LET returns(r) ==
               /\ failure' = r.errs
               /\ ret' = IF r.errs = {} THEN <<r.v>> ELSE <<>>
               /\ detail' = <<r.via>>
               /\ pc' = IF r.errs = {} THEN "returned" ELSE "panicked"
               /\ UNCHANGED <<struct_name, macro, new_divisor, reduced, call>>
       IN  returns(divide_128_max_by_64(call.args[1]))

NextDivide128 == Divide128

SpecDivide128 == InitDivide128 /\ [][NextDivide128]_vars

\* digits of the operands of the long multiplication: the smallest and the
\* largest ones and the one with only its top bit set
SampleDigits == {0, 1, Pow2(Bits64 - 1), U64_MAX - 1, U64_MAX}

\* u128 values made of two sampled digits
SampleU128 == { lo + Pow2(Bits64) * hi : lo \in SampleDigits, hi \in SampleDigits }

\* digits of a product long_multiply adds to: zero as divide_256_max_by_128
\* hands them over, and the ones that make a carry run or stop
ProductDigits == {0, 1, U64_MAX}

\* long_multiply applied to the operands the initial state draws: a of one or
\* two digits and a product of three
InitLongMultiply ==
    /\ struct_name = "none"
    /\ macro = "none"
    /\ new_divisor = 0
    /\ reduced = NoInstance
    /\ pc = "called"
    /\ \E a \in { <<lo>> : lo \in SampleDigits }
                 \cup { <<lo, hi>> : lo \in SampleDigits, hi \in SampleDigits } :
          \E b \in SampleDigits \cup {2, Pow2(HalfBits)} :
             \E product \in ProductDigits \X ProductDigits \X ProductDigits :
                call = [fn |-> "long_multiply", args |-> <<a, b, product>>]
    /\ ret = <<>>
    /\ detail = <<>>
    /\ failure = {}

LongMultiply ==
    /\ pc = "called"
    /\ call.fn = "long_multiply"
    /\ LET returns(r) == EngineReturns(r, <<>>)
       IN  returns(long_multiply(call.args[1], call.args[2], call.args[3]))

NextLongMultiply == LongMultiply

SpecLongMultiply == InitLongMultiply /\ [][NextLongMultiply]_vars

\* divisors of long_division: the ones that fit the half digit
\* divide_256_max_by_128 takes its fast path for
LongDivisionDivisors ==
    IF U32_MAX < MaxExhaustive THEN 1..U32_MAX
    ELSE {1, 2, 3, Pow2(HalfBits - 1) - 1, Pow2(HalfBits - 1), Pow2(HalfBits - 1) + 1,
          U32_MAX - 2, U32_MAX - 1, U32_MAX}

\* long_division applied to a numerator of one, two or three digits, a divisor
\* reduced by StrengthReducedU64::new and a zeroed quotient of the numerator's
\* length
InitLongDivision ==
    /\ struct_name = "none"
    /\ macro = "none"
    /\ new_divisor = 0
    /\ \E divisor \in LongDivisionDivisors : reduced = u64_new(divisor).v
    /\ pc = "called"
    /\ \E numerator_slice \in
              { <<lo>> : lo \in PreshiftedDigits }
                 \cup { <<lo, hi>> : lo \in SampleDigits, hi \in PreshiftedDigits }
                 \cup { <<lo, mid, hi>> :
                           lo \in SampleDigits, mid \in SampleDigits, hi \in SampleDigits } :
          call = [fn |-> "long_division",
                  args |-> <<numerator_slice, Zeros(Len(numerator_slice))>>]
    /\ ret = <<>>
    /\ detail = <<>>
    /\ failure = {}

\* what the loop did in each pass
Passes(r) == r.passes

LongDivision ==
    /\ pc = "called"
    /\ call.fn = "long_division"
    /\ LET returns(r) == EngineReturns(r, Passes(r))
       IN  returns(long_division(call.args[1], reduced, call.args[2]))

NextLongDivision == LongDivision

SpecLongDivision == InitLongDivision /\ [][NextLongDivision]_vars

\* upper 64 bits of the numerators handed to the helpers for a divisor: the
\* smallest and the largest ones and the ones next to the divisor, on both
\* sides of the assertion
HelperUpperDigits(divisor) ==
    {0, 1, divisor \div 2, divisor - 1, divisor, divisor + 1, U64_MAX} \cap (0..U64_MAX)

\* divisors of divide_128: the 64-bit ones and the ones with a sampled upper digit
WideDivisors ==
    { lo + Pow2(Bits64) * hi : lo \in PreshiftedDigits, hi \in SampleDigits \cup {2, 3} }
        \ {0}

\* one of divide_128_by_64_helper, divide_128_by_32_helper and divide_128
\* applied to the numerator and the divisor the initial state draws
InitDivideWide ==
    /\ struct_name = "none"
    /\ macro = "none"
    /\ new_divisor = 0
    /\ reduced = NoInstance
    /\ pc = "called"
    /\ \/ \E divisor \in PreshiftedDigits :
             \E hi \in HelperUpperDigits(divisor) :
                \E lo \in PreshiftedDigits :
                   call = [fn |-> "divide_128_by_64_helper",
                           args |-> <<hi * Pow2(Bits64) + lo, divisor>>]
       \/ \E divisor \in 0..U32_MAX :
             \E hi \in HelperUpperDigits(divisor) :
                \E lo \in PreshiftedDigits :
                   call = [fn |-> "divide_128_by_32_helper",
                           args |-> <<hi * Pow2(Bits64) + lo, divisor>>]
       \/ \E divisor \in WideDivisors :
             \E numerator \in BoundaryNumerators("U128", divisor) \cup SampleU128 :
                call = [fn |-> "divide_128", args |-> <<numerator, divisor>>]
    /\ ret = <<>>
    /\ detail = <<>>
    /\ failure = {}

\* the outcome of a call of one of the three: the quotient and the path taken
WideReturns(r) ==
    EngineReturns([v |-> <<r.v>>, errs |-> r.errs], [r EXCEPT !.v = 0, !.errs = {}])

Divide128By64Helper ==
    /\ pc = "called"
    /\ call.fn = "divide_128_by_64_helper"
    /\ LET returns(r) == WideReturns(r)
       IN  returns(divide_128_by_64_helper(call.args[1], call.args[2]))

Divide128By32Helper ==
    /\ pc = "called"
    /\ call.fn = "divide_128_by_32_helper"
    /\ LET returns(r) == WideReturns(r)
       IN  returns(divide_128_by_32_helper(call.args[1], call.args[2]))

Divide128Wide ==
    /\ pc = "called"
    /\ call.fn = "divide_128"
    /\ LET returns(r) == WideReturns(r)
       IN  returns(divide_128(call.args[1], call.args[2]))

NextDivideWide == Divide128By64Helper \/ Divide128By32Helper \/ Divide128Wide

SpecDivideWide == InitDivideWide /\ [][NextDivideWide]_vars

\* multiply_256_by_128_upperbits applied to operands drawn by the initial state
InitMultiply ==
    /\ struct_name = "none"
    /\ macro = "none"
    /\ new_divisor = 0
    /\ reduced = NoInstance
    /\ pc = "called"
    /\ call \in { [fn |-> "multiply_256_by_128_upperbits", args |-> <<a_hi, a_lo, b>>] :
                     a_hi \in SampleU128, a_lo \in SampleU128, b \in SampleU128 }
    /\ ret = <<>>
    /\ detail = <<>>
    /\ failure = {}

Multiply ==
    /\ pc = "called"
    /\ call.fn = "multiply_256_by_128_upperbits"
    /\ LET returns(r) ==
               /\ failure' = r.errs
               /\ ret' = IF r.errs = {} THEN <<r.v>> ELSE <<>>
               /\ detail' = r.product
               /\ pc' = IF r.errs = {} THEN "returned" ELSE "panicked"
               /\ UNCHANGED <<struct_name, macro, new_divisor, reduced, call>>
       IN  returns(multiply_256_by_128_upperbits(call.args[1], call.args[2], call.args[3]))

NextMultiply == Multiply

SpecMultiply == InitMultiply /\ [][NextMultiply]_vars

\* ----------------------------------------- the loops, one iteration a step
\* The multiplier derivations run again with every iteration of a while loop
\* as a step of its own.  pc is the loop the run stands in: "while_product" for
\* `while product > numerator` of the preshifted divisions (detail.half tells
\* which of the two), "for_quotient_idx" for the loop over the quotient digits
\* of divide_256_max_by_128 and "while_slice" for its `while is_slice_greater`.
\* detail holds the local variables of the function; reduced is the
\* StrengthReducedU64 the function divides with, if it has one.

\* decrement_guess without `product -= divisor`
decrement_guess_product_kept(loop) ==
    [loop EXCEPT !.quotient = loop.quotient - 1, !.steps = loop.steps + 1]

\* the loop variables at the head of the first `while product_hi > ..`
upper_guess_loop(fn, numerator_hi, numerator_lo_64, divisor, guess, outer) ==
    [fn |-> fn, half |-> 1,
     quotient |-> Min(guess, U32_MAX),
     product |-> Min(guess, U32_MAX) * divisor,
     numerator |-> BitOr(Shl(numerator_hi, HalfBits, Bits128),
                         Shr(numerator_lo_64, HalfBits)),
     divisor |-> divisor,
     numerator_lo |-> Wrap(numerator_lo_64, HalfBits),
     quotient_hi |-> 0, outer |-> outer, steps |-> 0]

\* `quotient -= 1; product -= divisor;`
decrement_guess(loop) ==
    [loop EXCEPT !.quotient = loop.quotient - 1,
                 !.product = loop.product - loop.divisor,
                 !.steps = loop.steps + 1]

\* the loop variables at the head of the second `while product_lo > ..`, from
\* the ones the first loop ended with; guess is the division by divisor_hi
lower_guess_loop(loop, guess) ==
    [loop EXCEPT !.half = 2,
                 !.quotient = Min(guess, U32_MAX),
                 !.product = Min(guess, U32_MAX) * loop.divisor,
                 !.numerator =
                     BitOr(Shl(Wrap(loop.numerator - loop.product, Bits128),
                               HalfBits, Bits128),
                           loop.numerator_lo),
                 !.quotient_hi = loop.quotient,
                 !.steps = 0]

\* the divisor a run of the loops starts from
LoopDigits ==
    { Pow2(Bits64 - 1) + k : k \in 0..U32_MAX } \cup { U64_MAX - k : k \in 0..U32_MAX }

InitLoops ==
    /\ struct_name = "none"
    /\ macro = "none"
    /\ new_divisor = 0
    /\ reduced = NoInstance
    /\ pc = "start"
    /\ call = NoCall
    /\ ret = <<>>
    /\ detail = <<>>
    /\ failure = {}

\* one of the functions is called, on a non-zero divisor
CallDerivation ==
    /\ pc = "start"
    /\ \/ \E divisor \in Divisors("u64") \ {0} :
             call' = [fn |-> "divide_128_max_by_64", args |-> <<divisor>>]
       \/ \E divisor_full \in LoopDigits :
             \E numerator_hi \in PreshiftedUpperDigits(divisor_full) :
                \E numerator_lo \in {0, U32_MAX, U64_MAX - U32_MAX, U64_MAX} :
                   call' = [fn |-> "divide_128_by_64_preshifted_reduced",
                            args |-> <<numerator_hi, numerator_lo, divisor_full>>]
       \/ \E divisor \in Divisors("U128") \ {0} :
             call' = [fn |-> "divide_256_max_by_128", args |-> <<divisor>>]
    /\ pc' = "called"
    /\ UNCHANGED <<struct_name, macro, new_divisor, reduced, ret, detail, failure>>

\* a step that leaves the run where `at` says, with the locals `locals`, or
\* ends it on a failure
StepTo(at, locals, errs) ==
    /\ failure' = errs
    /\ pc' = IF errs = {} THEN at ELSE "panicked"
    /\ detail' = locals
    /\ UNCHANGED <<struct_name, macro, new_divisor, call>>

\* divide_128_max_by_64 up to the first loop of divide_128_by_64_preshifted, or
\* to its return for a divisor below 2^32
EnterDerivation64 ==
    /\ pc = "called"
    /\ call.fn = "divide_128_max_by_64"
    /\ LET divisor == call.args[1]
           quotient_hi == NativeDiv(U64_MAX, divisor)
           remainder_hi == Wrap(U64_MAX - Wrap(quotient_hi * divisor, Bits64), Bits64)
           leading_zeros_ == leading_zeros(divisor, Bits64)
           numerator_hi ==
               IF leading_zeros_ > 0
               THEN BitOr(Shl(remainder_hi, leading_zeros_, Bits64),
                          Shr(U64_MAX, Bits64 - leading_zeros_))
               ELSE remainder_hi
           numerator_lo == Shl(U64_MAX, leading_zeros_, Bits64)
           shifted == Shl(divisor, leading_zeros_, Bits64)
           whole(r) ==
               /\ StepTo("returned", <<>>, r.errs)
               /\ ret' = IF r.errs = {} THEN <<r.v>> ELSE <<>>
       IN  IF leading_zeros_ >= HalfBits
           THEN whole(divide_128_max_by_64(divisor)) /\ UNCHANGED reduced
           ELSE /\ StepTo("while_product",
                          upper_guess_loop("divide_128_by_64_preshifted",
                              numerator_hi, numerator_lo, shifted,
                              NativeDiv(numerator_hi, Shr(shifted, HalfBits)),
                              Shl(quotient_hi, Bits64, Bits128)),
                          {})
                /\ UNCHANGED <<reduced, ret>>

\* divide_128_by_64_preshifted_reduced up to its first loop
EnterPreshiftedReduced ==
    /\ pc = "called"
    /\ call.fn = "divide_128_by_64_preshifted_reduced"
    /\ LET enter(divisor_hi, guess) ==
               /\ StepTo("while_product",
                         upper_guess_loop(call.fn, call.args[1], call.args[2],
                                          call.args[3], guess.v, 0),
                         divisor_hi.errs \cup guess.errs)
               /\ reduced' = divisor_hi.v
           reduce(divisor_hi) == enter(divisor_hi, u64_div(call.args[1], divisor_hi.v))
       IN  reduce(u64_new(Shr(call.args[3], HalfBits)))
    /\ UNCHANGED ret

\* one iteration of `while product > numerator`
DecrementGuess ==
    /\ pc = "while_product"
    /\ detail.product > detail.numerator
    /\ StepTo("while_product", decrement_guess(detail),
              Fits(detail.quotient - 1, Bits64)
                  \cup Fits(detail.product - detail.divisor, Bits128))
    /\ UNCHANGED <<reduced, ret>>

\* the exit of `while product > numerator`: on to the second loop after the
\* first, to the return after the second
LeaveGuessLoop ==
    /\ pc = "while_product"
    /\ ~(detail.product > detail.numerator)
    /\ LET remainder == Wrap(detail.numerator - detail.product, Bits64)
           lower(guess) ==
               StepTo("while_product", lower_guess_loop(detail, guess.v), guess.errs)
       IN  IF detail.half = 1
           THEN /\ IF detail.fn = "divide_128_by_64_preshifted_reduced"
                   THEN lower(u64_div(remainder, reduced))
                   ELSE lower([v |-> NativeDiv(remainder, Shr(detail.divisor, HalfBits)),
                               errs |-> {}])
                /\ UNCHANGED ret
           ELSE /\ StepTo("returned", detail, {})
                /\ ret' = << BitOr(detail.outer,
                                   BitOr(Shl(detail.quotient_hi, HalfBits, Bits64),
                                         detail.quotient)) >>
    /\ UNCHANGED reduced

\* divide_256_max_by_128 up to its loop over the quotient digits, or to its
\* return through divide_256_max_by_32
EnterDigitLoop ==
    /\ pc = "called"
    /\ call.fn = "divide_256_max_by_128"
    /\ LET divisor == call.args[1]
           leading_zeros_ == leading_zeros(divisor, Bits128)
           empty_divisor_chunks == leading_zeros_ \div Bits64
           shift_amount == leading_zeros_ % Bits64
           divisor_shifted == Shl(divisor, shift_amount, Bits128)
           divisor_chunks == << Wrap(divisor_shifted, Bits64),
                                Wrap(Shr(divisor_shifted, Bits64), Bits64) >>
           divisor_slice == SubSeq(divisor_chunks, 1, Len(divisor_chunks) - empty_divisor_chunks)
           numerator_chunks ==
               IF shift_amount > 0
               THEN [Repeat(U64_MAX, 5) EXCEPT ![5] = Shr(U64_MAX, Bits64 - shift_amount),
                                               ![1] = Shl(U64_MAX, shift_amount, Bits64)]
               ELSE Repeat(U64_MAX, 5)
           whole(r) ==
               /\ StepTo("returned", <<>>, r.errs)
               /\ ret' = IF r.errs = {} THEN r.v ELSE <<>>
               /\ UNCHANGED reduced
           enter(reduced_divisor_hi) ==
               /\ StepTo("for_quotient_idx",
                         [st |-> [numerator_chunks |-> numerator_chunks,
                                  numerator_max_idx |-> IF shift_amount > 0 THEN 5 ELSE 4,
                                  quotient_chunks |-> Zeros(4)],
                          quotient_idx |-> 3 + empty_divisor_chunks - 1,
                          divisor_slice |-> divisor_slice,
                          decrements |-> 0],
                         reduced_divisor_hi.errs)
               /\ reduced' = reduced_divisor_hi.v
               /\ UNCHANGED ret
       IN  IF leading_zeros_ >= 3 * HalfBits
           THEN whole(divide_256_max_by_32(Wrap(divisor, HalfBits)))
           ELSE enter(u64_new(Shr(divisor_slice[Len(divisor_slice)], HalfBits)))

\* the window of the numerator the digit quotient_idx is subtracted from
digit_window(locals) ==
    SubSeq(locals.st.numerator_chunks, locals.quotient_idx + 1,
           locals.st.numerator_max_idx)

\* one pass of `for quotient_idx in (0..num_quotient_chunks).rev()` up to the
\* head of `while is_slice_greater`, or the return after the last pass
NextDigit ==
    /\ pc = "for_quotient_idx"
    /\ LET st == detail.st
           quotient_idx == detail.quotient_idx
           divisor_slice == detail.divisor_slice
           divisor_hi == divisor_slice[Len(divisor_slice)]
           numerator_slice == SubSeq(st.numerator_chunks, 1, st.numerator_max_idx)
           numerator_start_idx == quotient_idx + Len(divisor_slice) - 1
           numerator_hi == IF Len(numerator_slice) - numerator_start_idx > 1
                           THEN numerator_slice[numerator_start_idx + 2] ELSE 0
           numerator_lo == numerator_slice[numerator_start_idx + 1]
           guessed(guess, tmp_product) ==
               StepTo("while_slice",
                      detail @@ [sub_quotient |-> guess.v,
                                 sub_product |-> normalize_slice(tmp_product.v)],
                      guess.errs \cup tmp_product.errs)
           multiply(guess) ==
               guessed(guess, long_multiply(divisor_slice, guess.v, Zeros(3)))
       IN  IF quotient_idx < 0
           THEN /\ StepTo("returned", detail, {})
                /\ ret' = << BitOr(st.quotient_chunks[3],
                                   Shl(st.quotient_chunks[4], Bits64, Bits128)),
                             BitOr(st.quotient_chunks[1],
                                   Shl(st.quotient_chunks[2], Bits64, Bits128)) >>
           ELSE IF numerator_start_idx >= Len(numerator_slice)
           THEN /\ StepTo("for_quotient_idx",
                          [detail EXCEPT !.quotient_idx = quotient_idx - 1], {})
                /\ UNCHANGED ret
           ELSE /\ multiply(divide_128_by_64_preshifted_reduced(
                                numerator_hi, numerator_lo, reduced, divisor_hi))
                /\ UNCHANGED ret
    /\ UNCHANGED reduced

\* one iteration of `while is_slice_greater(sub_product, ..)`
DecrementSubQuotient ==
    /\ pc = "while_slice"
    /\ is_slice_greater(detail.sub_product, digit_window(detail))
    /\ LET decrement(less) ==
               StepTo("while_slice",
                      [detail EXCEPT !.sub_product = less.v,
                                     !.sub_quotient = detail.sub_quotient - 1,
                                     !.decrements = detail.decrements + 1],
                      less.errs \cup Fits(detail.sub_quotient - 1, Bits64))
       IN  decrement(sub_assign(detail.sub_product, detail.divisor_slice))
    /\ UNCHANGED <<reduced, ret>>

\* the exit of `while is_slice_greater`: the digit is stored, its product
\* subtracted, the numerator trimmed, and the for loop goes on
AcceptDigit ==
    /\ pc = "while_slice"
    /\ ~is_slice_greater(detail.sub_product, digit_window(detail))
    /\ LET st == detail.st
           quotient_idx == detail.quotient_idx
           numerator_slice == SubSeq(st.numerator_chunks, 1, st.numerator_max_idx)
           accept(rest) ==
               StepTo("for_quotient_idx",
                      [st |-> [numerator_chunks |->
                                   SubSeq(numerator_slice, 1, quotient_idx) \o rest.v
                                       \o SubSeq(st.numerator_chunks,
                                                 st.numerator_max_idx + 1,
                                                 Len(st.numerator_chunks)),
                               numerator_max_idx |->
                                   st.numerator_max_idx
                                       - TrailingZeroChunks(
                                             SubSeq(numerator_slice, 1, quotient_idx)
                                                 \o rest.v),
                               quotient_chunks |->
                                   [st.quotient_chunks
                                        EXCEPT ![quotient_idx + 1] = detail.sub_quotient]],
                       quotient_idx |-> quotient_idx - 1,
                       divisor_slice |-> detail.divisor_slice,
                       decrements |-> detail.decrements],
                      rest.errs)
       IN  accept(sub_assign(digit_window(detail), detail.sub_product))
    /\ UNCHANGED <<reduced, ret>>

NextLoops ==
    \/ CallDerivation
    \/ EnterDerivation64
    \/ EnterPreshiftedReduced
    \/ DecrementGuess
    \/ LeaveGuessLoop
    \/ EnterDigitLoop
    \/ NextDigit
    \/ DecrementSubQuotient
    \/ AcceptDigit

SpecLoops == InitLoops /\ [][NextLoops]_vars

\* ------------------------------------------------------------ properties
\* the numerator of the last call on a numerator
Numerator == call.args[1]

\* a call of fn on a numerator has come to its end, by a return or by a panic
Ended(fn) == call.fn = fn /\ pc \in {"returned", "panicked"}

\* C1: for every width, every divisor D >= 1 and every numerator N of the
\* width, the reduced divide N / new(D) returns exactly floor(N / D).
DivideIsFloor ==
    Ended("div") => pc = "returned" /\ ret = <<Numerator \div reduced.divisor>>

\* a divide on the multiply path of the 128-bit implementation has returned the
\* quotient of the largest numerator
DivideIsFloorWitness ==
    /\ pc = "returned" /\ call.fn = "div" /\ struct_name = "StrengthReducedU128"
    /\ detail = <<"multiply">>
    /\ Numerator = U128_MAX /\ reduced.divisor = 3
    /\ ret = <<U128_MAX \div 3>>

\* C2: for every width, every divisor D >= 1 and every numerator N of the
\* width, the reduced modulo N % new(D) returns exactly N mod D.
ModuloIsRemainder ==
    Ended("rem") => pc = "returned" /\ ret = <<Numerator % reduced.divisor>>

\* a modulo of the 8-bit implementation by a divisor that is no power of two has
\* returned a non-zero remainder
ModuloIsRemainderWitness ==
    /\ pc = "returned" /\ call.fn = "rem" /\ struct_name = "StrengthReducedU8"
    /\ reduced.divisor = 7 /\ Numerator = 255 /\ ret = <<3>>

\* C3: for every width, every divisor D >= 1 and every numerator N,
\* div_rem(N, new(D)) returns the pair of what the reduced divide and the
\* reduced modulo return, on the power-of-two and on the multiply path.
DivRemIsPair ==
    Ended("div_rem") =>
        /\ pc = "returned"
        /\ ret = << div(macro, Numerator, reduced).v, rem(macro, Numerator, reduced).v >>

\* div_rem of the 32-bit macro, which writes both branches out itself, has
\* returned on the multiply path, with a quotient and a remainder above zero
DivRemIsPairWitness ==
    /\ pc = "returned" /\ call.fn = "div_rem" /\ macro = "u32"
    /\ detail = <<"multiply", "quotient">>
    /\ ret[1] > 0 /\ ret[2] > 0

\* C4: for every width, new(0) panics on its assertion divisor > 0 and returns
\* no reduced divisor; every reduced divisor that exists holds a divisor > 0.
NewZeroPanics ==
    /\ (call.fn = "new" /\ call.args = <<0>>) =>
           /\ pc = "panicked"
           /\ failure = {"assert divisor > 0"}
           /\ struct_name = "none"
    /\ struct_name # "none" => reduced.divisor > 0

\* new(0) of the 128-bit implementation has panicked
NewZeroPanicsWitness ==
    /\ pc = "panicked" /\ call = [fn |-> "new", args |-> <<0>>] /\ macro = "U128"
    /\ struct_name = "none"

\* C5: for every width, every divisor D >= 1 and every numerator, new, divide,
\* modulo and div_rem end without a fatal outcome: no assertion, expectation,
\* slice range, underflow or overflow of an intermediate fires.
NoFatalOutcome ==
    /\ pc = "panicked" => call = [fn |-> "new", args |-> <<0>>]
    /\ new_divisor # 0 => failure = {}

\* new of the 128-bit implementation has returned for a divisor whose long
\* division runs on two chunks after a shift, and div_rem has returned for it
NoFatalOutcomeWitness ==
    /\ pc = "returned" /\ call.fn = "div_rem" /\ struct_name = "StrengthReducedU128"
    /\ reduced.divisor > U64_MAX
    /\ leading_zeros(reduced.divisor, Bits128) > 0
    /\ ~is_power_of_two(reduced.divisor)
    /\ failure = {}

\* the k with 2^k = d, for a power of two d
Log2(d) == CHOOSE k \in 0..FloorLog2(d) : Pow2(k) = d

\* C6: for every width and every k with D = 2^k in the width (D = 1 and
\* D = 2^(W-1) included), N / new(2^k) = N >> k for every numerator N.
PowerOfTwoDivideIsShift ==
    (Ended("div") /\ \E k \in 0..(Width(macro) - 1) : reduced.divisor = Pow2(k)) =>
        /\ pc = "returned"
        /\ ret = << Shr(Numerator, Log2(reduced.divisor)) >>

\* a divide by the largest power of two of the 128-bit width has returned 1
PowerOfTwoDivideIsShiftWitness ==
    /\ pc = "returned" /\ call.fn = "div" /\ macro = "U128"
    /\ reduced.divisor = Pow2(Bits128 - 1)
    /\ Numerator = U128_MAX /\ ret = <<1>>

\* the quotient and the remainder of (left * 2^bits + 2^bits - 1) by d, one bit
\* of the all-ones dividend at a time: <<quotient, remainder>>
RECURSIVE DivideOnes(_, _, _, _)
DivideOnes(bits, d, left, quotient) ==
    IF bits = 0 THEN <<quotient, left>>
    ELSE IF 2 * left + 1 >= d
    THEN DivideOnes(bits - 1, d, 2 * left + 1 - d, 2 * quotient + 1)
    ELSE DivideOnes(bits - 1, d, 2 * left + 1, 2 * quotient)

\* floor((2^256 - 1) / d) as the pair <<high 128 bits, low 128 bits>>
MaxQuotient256(d) ==
    LET hi == DivideOnes(Bits128, d, 0, 0)
    IN  << hi[1], DivideOnes(Bits128, d, hi[2], 0)[1] >>

\* C7: divide_256_max_by_128(D) returns (hi, lo) with hi * 2^128 + lo equal to
\* floor((2^256 - 1) / D) for every divisor D >= 1 of 128 bits, whatever the
\* number of chunks of D and the shift that normalises it.
Divide256IsFloor ==
    Ended("divide_256_max_by_128") =>
        /\ pc = "returned"
        /\ ret = MaxQuotient256(call.args[1])

\* the long division has returned for a divisor of two chunks that a non-zero
\* shift normalises, after producing a quotient digit per chunk
Divide256IsFloorWitness ==
    /\ pc = "returned" /\ call.fn = "divide_256_max_by_128"
    /\ call.args[1] > U64_MAX
    /\ leading_zeros(call.args[1], Bits128) > 0
    /\ Len(detail) >= 3
    /\ ret[2] > 0

\* floor((a * b + c) / 2^128), by the two 64-bit halves of b: no product
\* outgrows the model's integers
MulShr(a, b, c) ==
    (a * Shr(b, Bits64) + ((a * Wrap(b, Bits64) + c) \div Pow2(Bits64))) \div Pow2(Bits64)

\* floor((a_hi * 2^128 + a_lo) * b / 2^256), computed without the 384-bit
\* product: a_hi * b * 2^128 is a multiple of 2^128, so the low 128 bits of
\* a_lo * b cannot carry into the result
UpperBits(a_hi, a_lo, b) == MulShr(a_hi, b, MulShr(a_lo, b, 0))

\* C8: multiply_256_by_128_upperbits(a_hi, a_lo, b) returns the top 128 bits of
\* the 384-bit product, floor((a_hi * 2^128 + a_lo) * b / 2^256), for every
\* a_hi, a_lo and b, a b with a zero low or high digit included.
MultiplyIsUpperBits ==
    Ended("multiply_256_by_128_upperbits") =>
        /\ pc = "returned"
        /\ ret = << UpperBits(call.args[1], call.args[2], call.args[3]) >>

\* the multiplication has returned non-zero upper bits for a b whose low digit
\* is zero, after carries out of the digits of a
MultiplyIsUpperBitsWitness ==
    /\ pc = "returned" /\ call.fn = "multiply_256_by_128_upperbits"
    /\ call.args = << U128_MAX, U128_MAX, Pow2(Bits64) * U64_MAX >>
    /\ ret[1] > 0

\* the branch the code of the width's Rem impl takes for a multiplier
RemBranch(m, r) ==
    IF DispatchMultiplier(m, r) = 0 THEN "mask"
    ELSE IF m \in {"U8", "u32"} THEN "product"
    ELSE "quotient"

\* C9 as stated: for every width, every divisor D >= 1 and every N, modulo is
\* obtained from the reduced quotient, as N - divide(N, R) * R.divisor.
ModuloFromQuotient ==
    (call.fn = "rem" /\ pc = "returned") => detail = <<"quotient">>

\* C9, amended: for every width, every divisor D >= 1 and every N, modulo
\* returns N - divide(N, R) * R.divisor, the remainder consistent with the
\* reduced quotient; it is computed from that quotient only on the multiply
\* path of the 16-, 64- and 128-bit code.  A power-of-two divisor masks N with
\* divisor - 1, and the multiply path of the 8- and 32-bit code takes the high
\* half of (multiplier * N mod 2^2W) * divisor.
ModuloConsistentWithDivide ==
    Ended("rem") =>
        /\ pc = "returned"
        /\ ret = << Numerator - div(macro, Numerator, reduced).v * reduced.divisor >>
        /\ detail = << RemBranch(macro, reduced) >>

\* a modulo of the 8-bit implementation has returned a remainder it computed
\* from the product, for a quotient above zero
ModuloConsistentWithDivideWitness ==
    /\ pc = "returned" /\ call.fn = "rem" /\ macro = "U8"
    /\ detail = <<"product">>
    /\ Numerator >= 2 * reduced.divisor
    /\ ret[1] > 0

\* error >= 2^shift_size for error = D - (2^(shift_size + W) mod D) and
\* shift_size = floor(log2(D)): what test_u8_spot calls predict_failure
PredictFailure(bit_width, divisor) ==
    /\ ~is_power_of_two(divisor)
    /\ divisor - Pow2Mod(FloorLog2(divisor) + bit_width, divisor)
           >= Pow2(FloorLog2(divisor))

\* the algorithm a divide runs: the branch it took, of the two the code has
Algorithm ==
    IF detail = <<"shift">> THEN "ShiftOnly"
    ELSE IF detail = <<"multiply">> THEN "MultiplyAndShift"
    ELSE "none"

\* C10 as stated: new selects the ExtraMultiplyBit algorithm for exactly the
\* divisors that are no power of two and have error >= 2^floor(log2 D).
ExtraMultiplyBitSelected ==
    (call.fn = "div" /\ pc = "returned") =>
        (Algorithm = "ExtraMultiplyBit" <=> PredictFailure(Width(macro), reduced.divisor))

\* C10, amended: new has no ExtraMultiplyBit algorithm.  For the divisors that
\* are no power of two and have error >= 2^floor(log2 D), as for every other
\* divisor that is no power of two, the divide takes the one multiply branch;
\* for the widths 8, 16, 32 and 64 new stores the multiplier
\* floor((2^2W - 1) / D) + 1 in 2W bits and the reduced divide is correct for
\* every numerator N.
LargeErrorDivideIsFloor ==
    (Ended("div") /\ PredictFailure(Width(macro), reduced.divisor)) =>
        /\ pc = "returned"
        /\ Algorithm = "MultiplyAndShift"
        /\ macro # "U128" =>
               /\ reduced.multiplier
                      = ((Pow2(2 * Width(macro)) - 1) \div reduced.divisor) + 1
               /\ ret = <<Numerator \div reduced.divisor>>

\* the 8-bit divide has returned floor(255 / 7) for the divisor 7, whose error
\* 5 is above 2^2
LargeErrorDivideIsFloorWitness ==
    /\ pc = "returned" /\ call.fn = "div" /\ macro = "U8"
    /\ reduced.divisor = 7 /\ PredictFailure(BitsU8, 7)
    /\ Numerator = 255 /\ ret = <<36>>

\* C11: get() returns exactly the divisor that was passed to new, also after
\* any sequence of divide, modulo and div_rem calls on the reduced divisor: no
\* operation modifies the divisor or the multiplier of a reduced divisor, which
\* stay what new computed.
GetReturnsDivisor ==
    /\ Ended("get") => pc = "returned" /\ ret = <<new_divisor>>
    /\ struct_name # "none" =>
           /\ reduced = new(macro, new_divisor).v
           /\ get(macro, reduced) = new_divisor

\* get() of the 128-bit implementation has returned the divisor right after a
\* div_rem on the multiply path
GetReturnsDivisorWitness ==
    /\ pc = "returned" /\ call.fn = "get" /\ macro = "U128"
    /\ detail = <<"multiply", "quotient">>
    /\ new_divisor = U128_MAX - 2
    /\ ret = <<U128_MAX - 2>>

\* C12: for width 8 and D = 6, new(6) selects the multiply path (a non-zero
\* multiplier, not the shift), and for N = 255 the reduced divide returns 42
\* and the reduced modulo returns 3.
DivisorSixScenario ==
    (struct_name = "StrengthReducedU8" /\ new_divisor = 6) =>
        /\ reduced.multiplier # 0
        /\ Ended("div") => pc = "returned" /\ Algorithm = "MultiplyAndShift"
        /\ (Ended("div") /\ Numerator = 255) => ret = <<42>>
        /\ Ended("rem") => pc = "returned" /\ detail # <<"mask">>
        /\ (Ended("rem") /\ Numerator = 255) => ret = <<3>>

\* 255 % new(6) of the 8-bit implementation has returned 3, for a reduced
\* divisor whose divide of 255 takes the multiply path to 42
DivisorSixScenarioWitness ==
    /\ pc = "returned" /\ call.fn = "rem" /\ struct_name = "StrengthReducedU8"
    /\ new_divisor = 6 /\ Numerator = 255 /\ ret = <<3>>
    /\ U8_div(255, reduced) = [v |-> 42, errs |-> {}, via |-> "multiply"]

\* C13: for width 8 and D = 8, new(8) selects the shift path (a zero
\* multiplier) with a shift of 3, the trailing zeros of the divisor, and for
\* N = 255 the reduced divide returns 31 and the reduced modulo returns 7.
DivisorEightScenario ==
    (struct_name = "StrengthReducedU8" /\ new_divisor = 8) =>
        /\ reduced.multiplier = 0
        /\ trailing_zeros(reduced.divisor, BitsU8) = 3
        /\ Ended("div") =>
               /\ pc = "returned" /\ Algorithm = "ShiftOnly"
               /\ ret = << Shr(Numerator, 3) >>
        /\ (Ended("div") /\ Numerator = 255) => ret = <<31>>
        /\ Ended("rem") => pc = "returned" /\ detail = <<"mask">>
        /\ (Ended("rem") /\ Numerator = 255) => ret = <<7>>

\* 255 / new(8) of the 8-bit implementation has returned 31 by the shift, for a
\* reduced divisor whose modulo of 255 is the mask to 7
DivisorEightScenarioWitness ==
    /\ pc = "returned" /\ call.fn = "div" /\ struct_name = "StrengthReducedU8"
    /\ new_divisor = 8 /\ Numerator = 255 /\ ret = <<31>> /\ detail = <<"shift">>
    /\ U8_rem(255, reduced) = [v |-> 7, errs |-> {}, via |-> "mask"]

\* the quotient digit floor((n_hi * 2^64 + n_lo) / d), capped at the digit maximum
CappedDigit(numerator_hi, numerator_lo, divisor) ==
    Min((numerator_hi * Pow2(Bits64) + numerator_lo) \div divisor, U64_MAX)

\* C14 as stated: divide_128_by_64_preshifted_reduced(n_hi, n_lo,
\* reduced(d >> 32), d) returns min(floor((n_hi * 2^64 + n_lo) / d), 2^64 - 1)
\* for every d with its top bit set and every n_hi <= d, n_hi = d included.
PreshiftedIsCappedDigit ==
    Ended("divide_128_by_64_preshifted_reduced") =>
        /\ pc = "returned"
        /\ ret = << CappedDigit(call.args[1], call.args[2], call.args[3]) >>

\* the divisor as divide_256_max_by_128 shifts it: its leading chunk gets its
\* top bit
ShiftedDivisor(divisor) ==
    divisor * Pow2(leading_zeros(divisor, Bits128) % Bits64)

\* the chunks left at and above a quotient position are worth less than bound
ChunksBelow(chunks, bound) ==
    /\ \A i \in 3..Len(chunks) : chunks[i] = 0
    /\ (IF Len(chunks) >= 1 THEN chunks[1] ELSE 0)
          + Pow2(Bits64) * (IF Len(chunks) >= 2 THEN chunks[2] ELSE 0) < bound

\* C15 as stated: divide_256_max_by_128 returns, and after the correction loop
\* and the subtraction for every quotient position idx the value remaining in
\* the numerator chunks is smaller than (shifted divisor) * 2^(64 * idx), that
\* is, the chunks from idx upwards are worth less than the shifted divisor: the
\* accepted digit is exact and no guess would have to be corrected upwards.
AcceptedDigitsAreExact ==
    Ended("divide_256_max_by_128") =>
        /\ pc = "returned"
        /\ \A i \in 1..Len(detail) :
              ChunksBelow(detail[i].remaining, ShiftedDivisor(call.args[1]))

\* C16: divide_128_max_by_64(D) returns floor((2^128 - 1) / D) for every divisor
\* D in [1, 2^64 - 1], on the branch of two plain divisions (leading_zeros >= 32)
\* and on the branch that normalises D and calls divide_128_by_64_preshifted.
Divide128IsFloor ==
    Ended("divide_128_max_by_64") =>
        /\ pc = "returned"
        /\ ret = << U128_MAX \div call.args[1] >>
        /\ detail = << IF call.args[1] < Pow2(HalfBits) THEN "divisions"
                       ELSE "preshifted" >>

\* divide_128_max_by_64 has returned the quotient on the preshifted branch, for
\* a divisor that a non-zero shift normalises
Divide128IsFloorWitness ==
    /\ pc = "returned" /\ call.fn = "divide_128_max_by_64"
    /\ call.args = << Pow2(Bits64 - 2) + 3 >>
    /\ detail = <<"preshifted">>
    /\ ret = << U128_MAX \div (Pow2(Bits64 - 2) + 3) >>

\* C17: for the widths 8, 16, 32 and 64, every divisor D that is no power of
\* two and every numerator N, the reduced divide returns the upper bits of the
\* widened product, (N * (M >> W) + ((N * (M mod 2^W)) >> W)) >> W
\* = floor(N * M / 2^2W) for the stored multiplier M, and no intermediate value
\* exceeds the 2W-bit intermediate type.
DivideIsUpperBitsOfProduct ==
    (Ended("div") /\ macro # "U128" /\ reduced.multiplier # 0) =>
        /\ pc = "returned"
        /\ failure = {}
        /\ detail = <<"multiply">>
        /\ ret = << (Numerator * reduced.multiplier) \div Pow2(2 * Width(macro)) >>

\* a 16-bit divide has returned the upper bits of the product of the largest
\* numerator and the multiplier of the divisor 3, whose two halves are non-zero
DivideIsUpperBitsOfProductWitness ==
    /\ pc = "returned" /\ call.fn = "div" /\ macro = "u16"
    /\ reduced.divisor = 3 /\ Numerator = MaxValue("u16")
    /\ Shr(reduced.multiplier, ModelBitsU16) > 0
    /\ Wrap(reduced.multiplier, ModelBitsU16) > 0
    /\ ret = << (Numerator * reduced.multiplier) \div Pow2(2 * ModelBitsU16) >>

\* the pair <<hi, lo>> of 128-bit halves plus one, the carry out of lo propagated
PairPlusOne(pair) ==
    IF pair[2] = U128_MAX THEN << pair[1] + 1, 0 >> ELSE << pair[1], pair[2] + 1 >>

\* C18 as stated: for every width W and every divisor D that is no power of two,
\* new returns, without wrapping on its "+ 1", a multiplier equal to
\* floor((2^2W - 1) / D) + 1; for the width 128 the pair (multiplier_hi,
\* multiplier_lo) is floor((2^256 - 1) / D) + 1 with the carry propagated.
StoredMultiplierIsCeiling ==
    /\ (call.fn = "new" /\ call.args # <<0>>) => pc = "ready" /\ failure = {}
    /\ (struct_name # "none" /\ ~is_power_of_two(new_divisor)) =>
           IF macro = "U128"
           THEN << reduced.multiplier_hi, reduced.multiplier_lo >>
                    = PairPlusOne(MaxQuotient256(new_divisor))
           ELSE /\ reduced.multiplier
                      = ((Pow2(2 * Width(macro)) - 1) \div new_divisor) + 1
                /\ reduced.multiplier < Pow2(2 * Width(macro))

\* floor(2^(shift_size + W) / D) for shift_size = floor(log2(D))
CandidateMultiplier(bit_width, divisor) ==
    Pow2(FloorLog2(divisor) + bit_width) \div divisor

\* a reduced divisor of one of the widths 8, 16, 32 and 64 exists for a divisor
\* that is no power of two and does not need the extra bit
NoExtraBitNeeded ==
    /\ struct_name # "none" /\ macro # "U128"
    /\ ~is_power_of_two(new_divisor)
    /\ ~PredictFailure(Width(macro), new_divisor)

\* C19 as stated, for the widths 8, 16, 32 and 64: for every divisor D that is
\* no power of two and does not need the extra bit, new stores
\* multiplier = candidate_multiplier + 1 for candidate_multiplier
\* = floor(2^(shift_size + W) / D), to be shifted by shift_size + W.
CandidateMultiplierStored ==
    NoExtraBitNeeded =>
        reduced.multiplier = CandidateMultiplier(Width(macro), new_divisor) + 1

\* C19, amended: for the widths 8, 16, 32 and 64 and every divisor D that is no
\* power of two and does not need the extra bit, new stores
\* multiplier = floor((2^2W - 1) / D) + 1, whose bits above the low
\* W - shift_size ones, once 1 is subtracted, are candidate_multiplier, and no
\* shift: the divide returns the product with the numerator shifted by 2W.
FullWidthMultiplierStored ==
    NoExtraBitNeeded =>
        /\ reduced.multiplier = ((Pow2(2 * Width(macro)) - 1) \div new_divisor) + 1
        /\ Shr(reduced.multiplier - 1, Width(macro) - FloorLog2(new_divisor))
               = CandidateMultiplier(Width(macro), new_divisor)
        /\ Ended("div") =>
               /\ pc = "returned"
               /\ ret = << Shr(Numerator * reduced.multiplier, 2 * Width(macro)) >>

\* new of the 8-bit implementation has stored 21846 = floor(65535 / 3) + 1 for
\* the divisor 3, whose candidate_multiplier is 170, and a divide has returned
FullWidthMultiplierStoredWitness ==
    /\ NoExtraBitNeeded /\ macro = "U8" /\ new_divisor = 3
    /\ reduced.multiplier = 21846
    /\ CandidateMultiplier(BitsU8, 3) = 170
    /\ pc = "returned" /\ call = [fn |-> "div", args |-> <<255>>] /\ ret = <<85>>

\* C20: for the widths 8 and 32, every divisor D that is no power of two and
\* every numerator N of the width, the remainder computed directly as
\* (((M * N) mod 2^2W) * D) >> 2W, M the stored multiplier, is N mod D, hence
\* smaller than D, and the product ((M * N) mod 2^2W) * D fits the 4W-bit type.
DirectModuloIsRemainder ==
    (Ended("rem") /\ macro \in {"U8", "u32"} /\ reduced.multiplier # 0) =>
        /\ pc = "returned"
        /\ failure = {}
        /\ detail = <<"product">>
        /\ ret = << Numerator % reduced.divisor >>
        /\ ret[1] < reduced.divisor
        /\ Shr(Wrap(reduced.multiplier * Numerator, 2 * Width(macro)) * reduced.divisor,
               2 * Width(macro)) = Numerator % reduced.divisor

\* the 32-bit modulo has returned the non-zero remainder of the largest
\* numerator by 5, computed from a wrapped product
DirectModuloIsRemainderWitness ==
    /\ pc = "returned" /\ call.fn = "rem" /\ macro = "u32"
    /\ detail = <<"product">>
    /\ reduced.divisor = 5 /\ Numerator = MaxValue("u32")
    /\ reduced.multiplier * Numerator >= Pow2(2 * ModelBitsU32)
    /\ ret = << MaxValue("u32") % 5 >> /\ ret[1] > 0

\* the stored multiplier a divide dispatches on: multiplier_hi for the width 128
DispatchWord ==
    IF macro = "U128" THEN reduced.multiplier_hi ELSE reduced.multiplier

\* D = 2^k for a k within the width
IsTwoToTheK(m, d) == \E k \in 0..(Width(m) - 1) : d = Pow2(k)

\* C21: for every width and every non-zero D, the multiplier new stores
\* (multiplier_hi for the width 128) is 0 if and only if D is a power of two;
\* divide, modulo and div_rem take the shift / mask branch for the powers of two
\* and for no other divisor, and the shift is by trailing_zero_count(D).
ShiftOnlyIffPowerOfTwo ==
    struct_name # "none" =>
        /\ DispatchWord = 0 <=> IsTwoToTheK(macro, new_divisor)
        /\ Ended("div") =>
              /\ detail = <<"shift">> <=> IsTwoToTheK(macro, new_divisor)
              /\ detail = <<"shift">> =>
                    ret = << Shr(Numerator, trailing_zeros(new_divisor, Width(macro))) >>
        /\ Ended("rem") =>
              /\ detail = <<"mask">> <=> IsTwoToTheK(macro, new_divisor)
              /\ detail = <<"mask">> => ret = << Numerator % new_divisor >>
        /\ Ended("div_rem") =>
              /\ detail[1] = "shift" <=> IsTwoToTheK(macro, new_divisor)
              /\ detail[1] = "shift" =>
                    ret[1] = Shr(Numerator, trailing_zeros(new_divisor, Width(macro)))

\* a div_rem of the 128-bit implementation has taken the shift and mask branch
\* for the divisor 2^(W-1), stored with multiplier_hi = 0
ShiftOnlyIffPowerOfTwoWitness ==
    /\ pc = "returned" /\ call.fn = "div_rem" /\ macro = "U128"
    /\ new_divisor = Pow2(Bits128 - 1) /\ reduced.multiplier_hi = 0
    /\ detail[1] = "shift" /\ Numerator = U128_MAX /\ ret = <<1, U128_MAX - Pow2(Bits128 - 1)>>

\* C22: for every divisor D in [1, 2^32 - 1], divide_256_max_by_128 takes the
\* fast path divide_256_max_by_32, which runs no quotient digit of the corrected
\* long division, and returns floor((2^256 - 1) / D) all the same.
FastPathIsFloor ==
    (Ended("divide_256_max_by_128") /\ call.args[1] <= U32_MAX) =>
        /\ pc = "returned"
        /\ detail = <<>>
        /\ ret = MaxQuotient256(call.args[1])

\* the fast path has returned the quotient for the largest 32-bit divisor, which
\* leaves a remainder to carry from chunk to chunk
FastPathIsFloorWitness ==
    /\ pc = "returned" /\ call = [fn |-> "divide_256_max_by_128", args |-> <<U32_MAX - 2>>]
    /\ detail = <<>>
    /\ U64_MAX % (U32_MAX - 2) > 0
    /\ ret = MaxQuotient256(U32_MAX - 2)

\* the value of the two low digits of a little-endian digit sequence
LowDigits(chunks) ==
    (IF Len(chunks) >= 1 THEN chunks[1] ELSE 0)
        + Pow2(Bits64) * (IF Len(chunks) >= 2 THEN chunks[2] ELSE 0)

\* product + a * b for a product of three digits and an a of at most two, digit
\* by digit: the two low digits of the sum, and what the third one has to hold
SumWithProduct(a, b, product) ==
    LET low == LowDigits(product) + ((LowDigits(a) * b) % Pow2(Bits128))
        top == product[3] + ((LowDigits(a) * b) \div Pow2(Bits128))
                   + (low \div Pow2(Bits128))
    IN  << low % Pow2(Bits64), (low \div Pow2(Bits64)) % Pow2(Bits64), top >>

\* C23: long_multiply(a, b, product) leaves product equal to its previous value
\* plus a * b, the carry propagated through every higher digit (it fails on its
\* expectation exactly when the sum has no room in product), and leaves product
\* unchanged when b = 0; for a zeroed product of 3 digits and an a of at most 2,
\* as divide_256_max_by_128 calls it, the carry never runs past the end.
LongMultiplyAddsProduct ==
    Ended("long_multiply") =>
        LET a == call.args[1]
            b == call.args[2]
            product == call.args[3]
            sum == SumWithProduct(a, b, product)
        IN  /\ pc = "returned" <=> sum[3] <= U64_MAX
            /\ pc = "returned" => ret = sum
            /\ pc = "panicked" => failure = {"carry overflow during multiplication!"}
            /\ b = 0 => pc = "returned" /\ ret = product
            /\ product = Zeros(3) => pc = "returned"

\* long_multiply has added the product of the largest two-digit a and the
\* largest b to a product whose low digits were full, carrying into the third
LongMultiplyAddsProductWitness ==
    /\ pc = "returned"
    /\ call = [fn |-> "long_multiply",
               args |-> << <<U64_MAX, U64_MAX>>, U64_MAX, <<U64_MAX, U64_MAX, 0>> >>]
    /\ ret = <<0, U64_MAX, U64_MAX>>

\* one of the two preshifted divisions has come to its end
PreshiftedEnded ==
    Ended("divide_128_by_64_preshifted") \/ Ended("divide_128_by_64_preshifted_reduced")

\* C24: in divide_128_by_64_preshifted and divide_128_by_64_preshifted_reduced,
\* for a divisor with its top bit set and n_hi <= divisor, each of the two loops
\* that correct a quotient guess decrements at most twice, and none decrements a
\* guess that is 0 (which would underflow).
AtMostTwoDecrements ==
    PreshiftedEnded =>
        /\ pc = "returned"
        /\ failure = {}
        /\ detail.steps[1] <= 2 /\ detail.steps[2] <= 2
        /\ detail.steps[1] <= detail.guesses[1]
        /\ detail.steps[2] <= detail.guesses[2]

\* the reduced division has returned after decrementing the guess of its second
\* half digit twice
AtMostTwoDecrementsWitness ==
    /\ pc = "returned" /\ call.fn = "divide_128_by_64_preshifted_reduced"
    /\ detail.steps[2] = 2 /\ detail.guesses[2] >= 2
    /\ ret = << CappedDigit(call.args[1], call.args[2], call.args[3]) >>

\* what the function of the run returns when it is computed as a whole
WholeRun ==
    CASE call.fn = "divide_128_max_by_64" ->
             << divide_128_max_by_64(call.args[1]).v >>
      [] call.fn = "divide_128_by_64_preshifted_reduced" ->
             << divide_128_by_64_preshifted_reduced(
                    call.args[1], call.args[2],
                    u64_new(Shr(call.args[3], HalfBits)).v, call.args[3]).v >>
      [] call.fn = "divide_256_max_by_128" ->
             divide_256_max_by_128(call.args[1]).v

\* how far a run is from its return: the loops and loop passes still ahead
Rank ==
    CASE pc = "start" -> 12
      [] pc = "called" -> 11
      [] pc = "while_product" -> 3 - detail.half
      [] pc = "for_quotient_idx" -> 2 * (detail.quotient_idx + 1) + 1
      [] pc = "while_slice" -> 2 * (detail.quotient_idx + 1)
      [] OTHER -> 0

\* what an iteration of the while loop the run stands in makes smaller: the
\* product that is compared with the numerator
Variant ==
    CASE pc = "while_product" -> detail.product
      [] pc = "while_slice" -> SliceValue(detail.sub_product)
      [] OTHER -> 0

\* C25: the 64-bit and the 128-bit derivation of the multiplier terminate for
\* every non-zero divisor.  No step fails, every step leads to a loop or a
\* loop pass nearer to the return or, as an iteration of a while loop on
\* product > numerator or on is_slice_greater, makes the natural number
\* Variant smaller, and what is returned is the result of the function; the
\* 64-bit derivation, which the 128-bit one runs for its reduced divisor,
\* constructs no reduced divisor of its own.
DerivationTerminates ==
    /\ [][Rank' < Rank \/ (Rank' = Rank /\ Variant' < Variant)]_vars
    /\ [](pc # "panicked" /\ Rank >= 0 /\ Variant >= 0)
    /\ [](pc = "returned" => ret = WholeRun)
    /\ [](call.fn = "divide_128_max_by_64" => reduced = NoInstance)

\* the 128-bit derivation has returned after a run in which the loop on
\* is_slice_greater has decremented a digit
DerivationTerminatesWitness ==
    /\ pc = "returned" /\ call.fn = "divide_256_max_by_128"
    /\ reduced # NoInstance
    /\ reduced.multiplier # 0
    /\ detail.decrements >= 1
    /\ ret = WholeRun

\* C26: in long_division, for a divisor below 2^32, the running remainder is
\* below the divisor at the start and at the end of every pass and between the
\* two divisions of a pass, so that (remainder << 32) | half-chunk keeps every
\* bit in 64 bits; each of the two half quotients of a pass fits 32 bits; and
\* the quotient digits are those of floor(numerator / divisor).
LongDivisionIsFloor ==
    Ended("long_division") =>
        /\ pc = "returned"
        /\ \A i \in 1..Len(detail) :
              /\ detail[i].remainder < reduced.divisor
              /\ detail[i].upper_remainder < reduced.divisor
              /\ detail[i].lower_remainder < reduced.divisor
              /\ detail[i].remainder * Pow2(HalfBits) + U32_MAX <= U64_MAX
              /\ detail[i].upper_remainder * Pow2(HalfBits) + U32_MAX <= U64_MAX
              /\ Len(detail[i].quotients) = 2 =>
                    /\ detail[i].quotients[1] <= U32_MAX
                    /\ detail[i].quotients[2] <= U32_MAX
        /\ Len(ret) = Len(call.args[1])
        /\ \A i \in 1..Len(ret) : ret[i] \in 0..U64_MAX
        /\ SliceValue(ret) = SliceValue(call.args[1]) \div reduced.divisor

\* long_division has divided three digits by a divisor that is no power of
\* two: the second and the third pass started with a remainder and made two
\* divisions each
LongDivisionIsFloorWitness ==
    /\ pc = "returned" /\ call.fn = "long_division"
    /\ reduced.divisor = U32_MAX - 2
    /\ call.args[1] = <<U64_MAX, U64_MAX - 1, U64_MAX>>
    /\ Len(detail) = 3
    /\ detail[2].remainder > 0 /\ Len(detail[2].quotients) = 2
    /\ detail[3].remainder > 0 /\ detail[3].upper_remainder > 0
    /\ SliceValue(ret) = SliceValue(call.args[1]) \div reduced.divisor

\* C27: whenever the divisor is greater than numerator >> 64,
\* divide_128_by_64_helper returns floor(numerator / divisor), a 64-bit value,
\* for the divisors below 2^32, which it hands to divide_128_by_32_helper, and
\* for the larger ones; for the numerator (2^64 - 1)^2 + (2^64 - 2) and the
\* divisor 2^64 - 1 the quotient is 2^64 - 1.
HelperIsFloor ==
    Ended("divide_128_by_64_helper") /\ call.args[2] > Shr(call.args[1], Bits64) =>
        /\ pc = "returned"
        /\ ret = << call.args[1] \div call.args[2] >>
        /\ ret[1] <= U64_MAX
        /\ detail.via = IF call.args[2] <= U32_MAX THEN "divide_128_by_32_helper"
                        ELSE "divide_128_by_64_helper"

\* divide_128_by_64_helper has returned 2^64 - 1 for the numerator
\* (2^64 - 1)^2 + (2^64 - 2) and the divisor 2^64 - 1
HelperIsFloorWitness ==
    /\ pc = "returned" /\ call.fn = "divide_128_by_64_helper"
    /\ call.args = << (U64_MAX - 1) * Pow2(Bits64) + U64_MAX, U64_MAX >>
    /\ call.args[1] = U64_MAX * U64_MAX + (U64_MAX - 1)
    /\ ret = << U64_MAX >>

\* C28: divide_128_by_64_helper and divide_128_by_32_helper panic on their
\* assertion, and return no quotient, whenever the divisor is not greater than
\* the upper 64 bits of the numerator.
HelpersAssertDivisorAboveUpperHalf ==
    /\ \/ Ended("divide_128_by_64_helper")
       \/ Ended("divide_128_by_32_helper")
    /\ ~(call.args[2] > Shr(call.args[1], Bits64))
    => /\ pc = "panicked"
       /\ failure = {QuotientMightNotFit}
       /\ ret = <<>>

\* divide_128_by_64_helper has panicked for a non-zero divisor equal to the
\* upper 64 bits of the numerator
HelpersAssertDivisorAboveUpperHalfWitness ==
    /\ pc = "panicked" /\ call.fn = "divide_128_by_64_helper"
    /\ call.args[2] = U64_MAX - 1
    /\ Shr(call.args[1], Bits64) = call.args[2]
    /\ failure = {QuotientMightNotFit}

\* C29: divide_128(numerator, divisor) is floor(numerator / divisor) for every
\* 128-bit numerator and every non-zero divisor, on each of its three
\* branches: a divisor that fits 64 bits and is greater than the upper half of
\* the numerator, a divisor that fits 64 bits with the numerator split, and a
\* divisor above 2^64 - 1, where the estimate, decremented once unless it is
\* zero, is corrected upwards by at most one.
DivideWideIsFloor ==
    Ended("divide_128") /\ call.args[2] # 0 =>
        /\ pc = "returned"
        /\ ret = << call.args[1] \div call.args[2] >>
        /\ detail.via = IF call.args[2] > U64_MAX THEN "estimate"
                        ELSE IF call.args[2] > Shr(call.args[1], Bits64) THEN "whole"
                        ELSE "split"
        /\ detail.via = "estimate" =>
              ret[1] = (IF detail.estimate > 0 THEN detail.estimate - 1 ELSE 0)
                          + detail.corrected

\* divide_128 has returned the quotient for a divisor above 2^64 - 1 after it
\* corrected a decremented non-zero estimate upwards
DivideWideIsFloorWitness ==
    /\ pc = "returned" /\ call.fn = "divide_128"
    /\ call.args[2] > U64_MAX
    /\ detail.via = "estimate" /\ detail.estimate > 1 /\ detail.corrected = 1
    /\ ret = << call.args[1] \div call.args[2] >>

=============================================================================
